---------------------------- MODULE Spec2Model ----------------------------
(***************************************************************************)
(* A model of the compliance-scoring engine of document-ai                 *)
(* (src/src/compliance_checker.py): the rule store, the evidence search,   *)
(* the compliance evaluator and the recommendation generator; and of the   *)
(* programs around it: the document processor, the document segmenter, the *)
(* rating label of the report generator, main.py and demo.py.              *)
(*                                                                         *)
(* Spec is one run: a checker is constructed and a document checked.       *)
(* SearchSpec and WindowSpec run the evidence search alone, on short and   *)
(* on long texts.  RecSpec hands a report to the recommendation generator. *)
(* SessionSpec calls a checker repeatedly.  ConcSpec runs two              *)
(* check_compliance calls at a time, step by step.  RatingSpec rates a     *)
(* score in the printed summary and in the HTML report.  ExtractSpec calls *)
(* extract_text_from_pdf, SegmentSpec build_document_structure.  MainSpec  *)
(* is a run of main.py, DemoSpec a run of demo.py.                         *)
(*                                                                         *)
(* Text is a sequence of characters; a character is a one-character        *)
(* string, except the three Greek sigmas, which are written by name.       *)
(* Optional values (Python's None) are sequences of length 0 or 1.         *)
(* compliance_score is kept in hundredths (66.67 is 6667).                 *)
(***************************************************************************)
EXTENDS Integers, Sequences, FiniteSets, TLC

(* ------------------------------ bounds -------------------------------- *)

MaxTextLen == 3

MaxKwLen == 2

MaxKeywords == 2

MaxDocLen == 2

MaxTotalChecks == 2

MaxStandards == 2

MaxRecChecks == 7

MaxClock == 2

MaxPdfPages == 11

MaxPagesArg == 2

MaxThreshold == 5

MaxPages == 3

MaxTables == 2

WindowSlack == 2

(* ------------------------- program constants -------------------------- *)

ContextLength == 100

\* The score of a report whose checks are all met, in hundredths.
FullScore == 10000

\* The default of min_text_threshold.
MinTextThreshold == 1000

\* The pages OCR is run on when max_pages is not given.
OcrDefaultPages == 10

\* max_pages of the extraction in main.py, and in demo.py.
MainMaxPages == 150

DemoMaxPages == 20

DefaultWeight == 5

VARIABLES
    fileState,    \* what open()/json.load() meet at rules_path
    verbose,      \* self.verbose
    phase,        \* "new", "ready" (constructed), "failed" (__init__ raised),
                  \* "checked" (check_compliance was called)
    rules,        \* self.rules
    loadOutput,   \* the lines __init__ and _load_rules printed
    raised,       \* the exception the last call let escape, or "none"
    docText,      \* document_text of the last check_compliance call
    report,       \* <<r>>: what the last check_compliance returned; <<>>: nothing
    printed,      \* the lines the last check_compliance printed
    now,          \* the wall clock _get_timestamp reads
    sText,        \* evidence search alone: the document text
    sKeywords,    \*   the keyword list
    sResult,      \*   <<r>>: the search's result and its locals; <<>>: not run
    recCall,      \* <<c>>: the last call of get_non_compliant_items or
                  \* generate_recommendations since the report was returned
    calls,        \* concurrent check_compliance calls: where each one stands
    frames,       \*   and its local variables
    rated,        \* a score, and the rating each place derived from it
    pdf,          \* the file at pdf_path
    extractArgs,  \* max_pages and min_text_threshold of extract_text_from_pdf
    extracted,    \* <<x>>: what extract_text_from_pdf returned or raised
    pageTexts,    \* page_texts handed to the segmenter
    structure,    \* <<s>>: what build_document_structure returned
    pc,           \* where a run of main.py or demo.py stands
    stats,        \* <<s>>: what get_statistics returned
    tables,       \* the tables found, and whether excel_path is set
    files,        \* the files the run has written to the output directory
    console       \* what the run has printed, line group by line group

checkerVars == <<fileState, verbose, phase, rules, loadOutput, raised, docText,
                 report, printed, now>>

searchVars == <<sText, sKeywords, sResult>>

recVars == <<recCall>>

threadVars == <<calls, frames>>

coreVars == <<checkerVars, searchVars, recVars, threadVars>>

ratingVars == <<rated>>

extractVars == <<pdf, extractArgs, extracted>>

\* The state of the programs around the checker.
segmentVars == <<pageTexts, structure>>

runVars == <<pc, stats, tables, files, console>>

restVars == <<ratingVars, extractVars, segmentVars, runVars>>

vars == <<fileState, verbose, phase, rules, loadOutput, raised, docText,
          report, printed, now, sText, sKeywords, sResult, recCall, calls,
          frames, restVars>>

(* ------------------------------ strings ------------------------------- *)

None == <<>>

Some(x) == <<x>>

Max(a, b) == IF a >= b THEN a ELSE b

Min(a, b) == IF a <= b THEN a ELSE b

\* Unicode's Cased property, on the characters of the model.
IsCased(c) == c \in {"a", "A", "b", "B", "SIGMA", "sigma", "final_sigma"}

IsSpace(c) == c \in {" ", "\n"}

\* The lowercase mapping of a character whose mapping needs no context.
LowerChar(c) ==
    CASE c = "A" -> "a"
      [] c = "B" -> "b"
      [] OTHER -> c

\* str.lower() maps capital sigma to final sigma when a cased letter precedes
\* it and none follows it, and to small sigma otherwise.
FinalSigma(t, i) ==
    /\ i > 1
    /\ IsCased(t[i - 1])
    /\ ~(i < Len(t) /\ IsCased(t[i + 1]))

Lower(t) ==
    [i \in 1..Len(t) |->
        IF t[i] = "SIGMA"
        THEN IF FinalSigma(t, i) THEN "final_sigma" ELSE "sigma"
        ELSE LowerChar(t[i])]

\* text[a:b] for 0 <= a, b <= len(text)
Slice(t, a, b) == IF b <= a THEN <<>> ELSE SubSeq(t, a + 1, b)

\* The offsets at which k occurs in t.
Occurrences(t, k) ==
    {i \in 0..(Len(t) - Len(k)) : Slice(t, i, i + Len(k)) = k}

\* k in t
Contains(t, k) == Occurrences(t, k) # {}

\* t.find(k)
Find(t, k) ==
    IF Occurrences(t, k) = {} THEN -1
    ELSE CHOOSE i \in Occurrences(t, k) : \A j \in Occurrences(t, k) : i <= j

\* The positions of s that hold no whitespace.
Inked(s) == {i \in 1..Len(s) : ~IsSpace(s[i])}

\* s.lstrip()
LStrip(s) ==
    IF Inked(s) = {} THEN <<>>
    ELSE SubSeq(s, CHOOSE i \in Inked(s) : \A j \in Inked(s) : i <= j, Len(s))

\* s.rstrip()
RStrip(s) ==
    IF Inked(s) = {} THEN <<>>
    ELSE SubSeq(s, 1, CHOOSE i \in Inked(s) : \A j \in Inked(s) : i >= j)

\* s.strip()
Strip(s) == LStrip(RStrip(s))

\* " ".join(s.split()): the words of s, one space between two of them.  Of
\* every run of whitespace that stands between two words the first
\* character is kept, as a space; no other whitespace is.
JoinSplit(s) ==
    LET ink == Inked(s)
        marked == [i \in 1..Len(s) |->
                     [char |-> IF IsSpace(s[i]) THEN " " ELSE s[i],
                      keep |-> \/ i \in ink
                               \/ /\ (i - 1) \in ink
                                  /\ \E j \in ink : j > i]]
        kept == SelectSeq(marked, LAMBDA m : m.keep)
    IN  [i \in 1..Len(kept) |-> kept[i].char]

(* -------------------------- evidence search --------------------------- *)

\* _extract_context: the window around the first occurrence of keyword.
ExtractContext(text, keyword, context_length) ==
    LET index == Find(text, keyword)
        start == Max(0, index - context_length)
        end   == Min(Len(text), index + Len(keyword) + context_length)
    IN  IF index = -1 THEN keyword
        ELSE JoinSplit(Strip(Slice(text, start, end)))

\* _search_keywords from the i-th keyword on.  found and evidence are the
\* tuple returned; pos, keyword and index are the locals at the return:
\* the list position of the keyword matched, its lowercase form and the
\* offset text.find gives for it.
RECURSIVE SearchFrom(_, _, _)
SearchFrom(text, keywords, i) ==
    IF i > Len(keywords)
    THEN [found |-> FALSE, evidence |-> None, pos |-> 0, keyword |-> <<>>,
          index |-> -1]
    ELSE LET keyword_lower == Lower(keywords[i])
         IN  IF Contains(text, keyword_lower)
             THEN [found |-> TRUE,
                   evidence |-> Some(ExtractContext(text, keyword_lower,
                                                    ContextLength)),
                   pos |-> i, keyword |-> keyword_lower,
                   index |-> Find(text, keyword_lower)]
             ELSE SearchFrom(text, keywords, i + 1)

\* _search_keywords, had it returned (True, None) on a match.
SearchKeywordsNoEvidence(text, keywords) ==
    [SearchFrom(text, keywords, 1) EXCEPT !.evidence = None]

SearchKeywords(text, keywords) == SearchFrom(text, keywords, 1)


(* ----------------------------- rule sets ------------------------------ *)

\* A JSON object is a record of its values together with the set of keys it
\* holds; a field whose key is absent holds a placeholder nobody reads.
Has(obj, key) == key \in obj.keys

\* A keywords value: a list of strings, a bare string, or a number.
KwList(items) == [type |-> "list", items |-> items]

KwStr(chars) == [type |-> "str", items |-> [i \in 1..Len(chars) |-> <<chars[i]>>]]

KwNum == [type |-> "num", items |-> <<>>]

AllCheckKeys == {"id", "requirement", "keywords", "mandatory", "weight"}

Check(keys, id, requirement, keywords, mandatory, weight) ==
    [keys |-> keys, id |-> id, requirement |-> requirement,
     keywords |-> keywords, mandatory |-> mandatory, weight |-> weight]

\* Checks that conform to the data model.
ConformingChecks ==
    { Check(AllCheckKeys, "c1", "R1", KwList(<< <<"a">> >>), TRUE, 10),
      Check(AllCheckKeys, "c2", "R2", KwList(<< <<"b">> >>), FALSE, 5),
      Check(AllCheckKeys \ {"mandatory", "weight"}, "c3", "R3",
            KwList(<< <<"A", "b">> >>), TRUE, 0),
      Check(AllCheckKeys, "c4", "R4", KwList(<< <<"a">> >>), TRUE, 0) }

\* Checks that break it: no id, keywords a bare string (with a negative
\* weight besides), an empty keyword list.
MalformedChecks ==
    { Check(AllCheckKeys \ {"id"}, "", "R5", KwList(<< <<"a">> >>), TRUE, 5),
      Check(AllCheckKeys, "c6", "R6", KwStr(<<"a", "b">>), FALSE, -5),
      Check(AllCheckKeys, "c8", "R8", KwList(<<>>), FALSE, 5) }

CheckPool == ConformingChecks \cup MalformedChecks

AllStandardKeys == {"name", "category", "priority", "checks"}

Standard(keys, name, category, priority, checks) ==
    [keys |-> keys, name |-> name, category |-> category,
     priority |-> priority, checks |-> checks]

\* The shapes a standard's JSON object takes: only the required keys, every
\* key, or no `checks` key.
StandardShapes == {"plain", "full", "nochecks"}

MkStandard(shape, checks) ==
    CASE shape = "plain" ->
             Standard({"name", "checks"}, "X", "", "", checks)
      [] shape = "full" ->
             Standard(AllStandardKeys, "Y", "financial", "HIGH", checks)
      [] OTHER ->
             Standard({"name"}, "Z", "", "", <<>>)

StandardId(i) == CASE i = 1 -> "S1" [] i = 2 -> "S2" [] i = 3 -> "S3" [] OTHER -> "S4"

\* A decoded rules file: a JSON object, its items in insertion order, or a
\* JSON array.
RulesDict(items) == [type |-> "dict", items |-> items]

RulesArray == [type |-> "list", items |-> <<>>]

SeqsUpTo(S, n) == UNION {[1..k -> S] : k \in 0..n}

\* The ways to cut cs into n consecutive pieces.
RECURSIVE Cuts(_, _)
Cuts(cs, n) ==
    IF n = 0 THEN (IF cs = <<>> THEN {<<>>} ELSE {})
    ELSE UNION { { <<SubSeq(cs, 1, k)>> \o rest :
                     rest \in Cuts(SubSeq(cs, k + 1, Len(cs)), n - 1) } :
                 k \in 0..Len(cs) }

\* The shape of the i-th of the n standards of a rules file: the first with
\* only the required keys, the second with every key, and so on in turn; the
\* last one, when it has no checks, may also lack the `checks` key.
ShapesFor(i, n, checks) ==
    {IF i % 2 = 1 THEN "plain" ELSE "full"}
    \cup (IF checks = <<>> /\ i = n THEN {"nochecks"} ELSE {})

\* The rule sets with the given pieces as their standards' checks.
RulesOver(pieces) ==
    { RulesDict([i \in 1..Len(pieces) |->
                    [id |-> StandardId(i),
                     info |-> MkStandard(shapes[i], pieces[i])]]) :
      shapes \in { f \in [1..Len(pieces) -> StandardShapes] :
                      \A i \in 1..Len(pieces) :
                          f[i] \in ShapesFor(i, Len(pieces), pieces[i]) } }

\* What open() and json.load() meet at rules_path: no file, a file that is
\* no JSON, a file that cannot be read, a JSON array, or a JSON object of
\* standards.
IsRulesFile(file) ==
    \/ \E k \in {"absent", "badjson", "unreadable"} :
          file = [kind |-> k, value |-> RulesDict(<<>>)]
    \/ file = [kind |-> "json", value |-> RulesArray]
    \/ \E cs \in SeqsUpTo(CheckPool, MaxTotalChecks) :
          \E n \in 0..MaxStandards :
             \E pieces \in Cuts(cs, n) :
                \E r \in RulesOver(pieces) :
                   file = [kind |-> "json", value |-> r]

\* _get_default_rules
BalanceSheet == <<"b", "a", "l", "a", "n", "c", "e", " ", "s", "h", "e", "e", "t">>

DefaultRules ==
    RulesDict(<< [id |-> "IndAS-1",
                  info |-> Standard({"name", "checks"}, "Financial Statements",
                                    "", "",
                                    << Check(AllCheckKeys, "IndAS1-1",
                                             "Balance Sheet",
                                             KwList(<<BalanceSheet>>),
                                             TRUE, 10) >>)] >>)

(* ----------------------------- rule store ----------------------------- *)

\* A printed line: what it is and the values it shows.
Line(tag, s1, s2, chars, n, m) ==
    [tag |-> tag, s1 |-> s1, s2 |-> s2, chars |-> chars, n |-> n, m |-> m]

Say(tag) == Line(tag, "", "", <<>>, 0, 0)

\* _load_rules, had it reported the fallback only when verbose.
LoadRulesQuiet(file, vb) ==
    CASE file.kind = "json" ->
             [rules |-> file.value,
              out |-> IF vb THEN <<Say("rules_loaded")>> ELSE <<>>,
              err |-> "none"]
      [] file.kind = "absent" ->
             [rules |-> DefaultRules,
              out |-> IF vb THEN <<Say("rules_file_not_found"),
                                   Say("using_default_rules")>>
                      ELSE <<>>,
              err |-> "none"]
      [] file.kind = "badjson" ->
             [rules |-> DefaultRules,
              out |-> IF vb THEN <<Say("invalid_json")>> ELSE <<>>,
              err |-> "none"]
      [] OTHER ->
             [rules |-> RulesDict(<<>>), out |-> <<>>, err |-> "PermissionError"]

\* _load_rules: the rule set, the lines printed, the exception let through.
LoadRules(file, vb) ==
    CASE file.kind = "json" ->
             [rules |-> file.value,
              out |-> IF vb THEN <<Say("rules_loaded")>> ELSE <<>>,
              err |-> "none"]
      [] file.kind = "absent" ->
             [rules |-> DefaultRules,
              out |-> <<Say("rules_file_not_found"), Say("using_default_rules")>>,
              err |-> "none"]
      [] file.kind = "badjson" ->
             [rules |-> DefaultRules,
              out |-> <<Say("invalid_json")>>,
              err |-> "none"]
      [] OTHER ->
             [rules |-> RulesDict(<<>>), out |-> <<>>, err |-> "PermissionError"]

\* sum(len(std['checks']) for std in self.rules.values())
RECURSIVE CountChecks(_, _)
CountChecks(items, i) ==
    IF i > Len(items) THEN 0
    ELSE Len(items[i].info.checks) + CountChecks(items, i + 1)

\* What __init__ does after _load_rules when verbose: the count of the
\* checks, which needs a dict whose every standard has `checks`.
InitSummary(r) ==
    IF r.type # "dict" THEN [out |-> <<>>, err |-> "AttributeError"]
    ELSE IF \E i \in 1..Len(r.items) : ~Has(r.items[i].info, "checks")
    THEN [out |-> <<>>, err |-> "KeyError"]
    ELSE [out |-> <<Say("initialized"),
                    Line("standards_loaded", "", "", <<>>, Len(r.items), 0),
                    Line("total_checks", "", "", <<>>,
                         CountChecks(r.items, 1), 0)>>,
          err |-> "none"]

\* ComplianceChecker.__init__
Construct ==
    /\ phase = "new"
    /\ LET loaded == LoadRules(fileState, verbose)
           summed == IF loaded.err = "none" /\ verbose
                     THEN InitSummary(loaded.rules)
                     ELSE [out |-> <<>>, err |-> loaded.err]
       IN  /\ rules' = loaded.rules
           /\ loadOutput' = loaded.out \o summed.out
           /\ raised' = summed.err
           /\ phase' = IF summed.err = "none" THEN "ready" ELSE "failed"
    /\ UNCHANGED <<fileState, verbose, docText, report, printed, now>>
    /\ UNCHANGED <<searchVars, recVars, threadVars, restVars>>

(* ------------------------ compliance evaluator ------------------------ *)

\* n / d cut off, not rounded.
Truncated(n, d) == n \div d

\* round(n / d, 0) for d > 0: to the nearest integer, a tie to the even one.
RoundHalfEven(n, d) ==
    LET q == n \div d
        r == n % d
    IN  IF 2 * r < d THEN q
        ELSE IF 2 * r > d THEN q + 1
        ELSE IF q % 2 = 0 THEN q ELSE q + 1

\* The score, had an empty total counted as full compliance.
ComplianceScoreNoFloor(summary) ==
    IF summary.total_weight > 0
    THEN RoundHalfEven(summary.achieved_weight * 10000, summary.total_weight)
    ELSE 10000

\* round(achieved_weight / total_weight * 100, 2), in hundredths
ComplianceScore(summary) ==
    IF summary.total_weight > 0
    THEN RoundHalfEven(summary.achieved_weight * 10000, summary.total_weight)
    ELSE 0

\* The rating _print_summary derives from the score.
Rating(score) ==
    IF score >= 9000 THEN "EXCELLENT"
    ELSE IF score >= 7500 THEN "GOOD"
    ELSE IF score >= 6000 THEN "FAIR"
    ELSE "POOR"

\* ReportGenerator._get_rating_label, without the pictograph in front
GetRatingLabel(score) ==
    IF score >= 9000 THEN "EXCELLENT"
    ELSE IF score >= 7500 THEN "GOOD"
    ELSE IF score >= 6000 THEN "FAIR"
    ELSE "NEEDS IMPROVEMENT"

\* check.get('weight', 5)
WeightOf(check) == IF Has(check, "weight") THEN check.weight ELSE DefaultWeight

\* check.get('mandatory', False)
MandatoryDefaultFalse(check) ==
    IF Has(check, "mandatory") THEN check.mandatory ELSE FALSE

\* check.get('mandatory', True)
MandatoryOf(check) == IF Has(check, "mandatory") THEN check.mandatory ELSE TRUE

\* The status of a check, from the search's verdict and the mandatory flag.
StatusOf(found, mandatory) ==
    IF found THEN "COMPLIANT"
    ELSE IF mandatory THEN "NON-COMPLIANT"
    ELSE "MISSING"

SymbolOf(status) ==
    CASE status = "COMPLIANT" -> "check_mark"
      [] status = "NON-COMPLIANT" -> "cross_mark"
      [] OTHER -> "warning"

\* The counters, had every mandatory check's weight been achieved.
TallyWeightOfUnmatched(summary, status, weight) ==
    CASE status = "COMPLIANT" ->
             [summary EXCEPT !.compliant = @ + 1, !.achieved_weight = @ + weight]
      [] status = "NON-COMPLIANT" ->
             [summary EXCEPT !.non_compliant = @ + 1,
                             !.achieved_weight = @ + weight]
      [] OTHER ->
             [summary EXCEPT !.missing = @ + 1]

\* The counters, had a MISSING check been counted as non-compliant.
TallyMissingAsNonCompliant(summary, status, weight) ==
    CASE status = "COMPLIANT" ->
             [summary EXCEPT !.compliant = @ + 1, !.achieved_weight = @ + weight]
      [] OTHER ->
             [summary EXCEPT !.non_compliant = @ + 1]

\* The counters of summary a status moves.
Tally(summary, status, weight) ==
    CASE status = "COMPLIANT" ->
             [summary EXCEPT !.compliant = @ + 1, !.achieved_weight = @ + weight]
      [] status = "NON-COMPLIANT" ->
             [summary EXCEPT !.non_compliant = @ + 1]
      [] OTHER ->
             [summary EXCEPT !.missing = @ + 1]

\* evidence[:80] + "..." if len(evidence) > 80 else evidence
EvidencePreview(evidence) ==
    IF Len(evidence) > 80
    THEN SubSeq(evidence, 1, 80) \o <<".", ".", ".">>
    ELSE evidence

\* The lines printed for a check result when verbose.
CheckLines(result, vb) ==
    IF ~vb THEN <<>>
    ELSE <<Line("check", result.status, result.requirement, <<>>, 0, 0)>>
         \o (IF result.evidence # None /\ result.evidence[1] # <<>>
             THEN <<Line("evidence", "", "", EvidencePreview(result.evidence[1]),
                         0, 0)>>
             ELSE <<>>)

\* The rest of a pass, had the check result read check['weight'] and
\* check['mandatory'] without a default.
RecordCheckNoDefaults(st, check, search, vb) ==
    LET weight == WeightOf(check)
        status == StatusOf(search.found, MandatoryOf(check))
        result == [check_id |-> check.id,
                   requirement |-> check.requirement,
                   status |-> status,
                   symbol |-> SymbolOf(status),
                   mandatory |-> MandatoryOf(check),
                   weight |-> weight,
                   evidence |-> search.evidence,
                   keywords_searched |-> check.keywords]
    IN  IF ~Has(check, "id") \/ ~Has(check, "requirement")
           \/ ~Has(check, "weight") \/ ~Has(check, "mandatory")
        THEN [st EXCEPT !.summary = Tally(@, status, weight), !.err = "KeyError"]
        ELSE [summary |-> Tally(st.summary, status, weight),
              std |-> [st.std EXCEPT
                         !.checks = Append(@, result),
                         !.compliant_count =
                             IF status = "COMPLIANT" THEN @ + 1 ELSE @],
              printed |-> st.printed \o CheckLines(result, vb),
              err |-> "none"]

\* The rest of a pass, had compliant_count counted every check result.
RecordCheckCountsAll(st, check, search, vb) ==
    LET weight == WeightOf(check)
        status == StatusOf(search.found, MandatoryOf(check))
        result == [check_id |-> check.id,
                   requirement |-> check.requirement,
                   status |-> status,
                   symbol |-> SymbolOf(status),
                   mandatory |-> MandatoryOf(check),
                   weight |-> weight,
                   evidence |-> search.evidence,
                   keywords_searched |-> check.keywords]
    IN  IF ~Has(check, "id") \/ ~Has(check, "requirement")
        THEN [st EXCEPT !.summary = Tally(@, status, weight), !.err = "KeyError"]
        ELSE [summary |-> Tally(st.summary, status, weight),
              std |-> [st.std EXCEPT
                         !.checks = Append(@, result),
                         !.compliant_count = @ + 1],
              printed |-> st.printed \o CheckLines(result, vb),
              err |-> "none"]

\* The rest of a pass of the loop over a standard's checks, once the
\* search has returned: the status, the counters and the check result.
RecordCheck(st, check, search, vb) ==
    LET weight == WeightOf(check)
        status == StatusOf(search.found, MandatoryOf(check))
        result == [check_id |-> check.id,
                   requirement |-> check.requirement,
                   status |-> status,
                   symbol |-> SymbolOf(status),
                   mandatory |-> MandatoryOf(check),
                   weight |-> weight,
                   evidence |-> search.evidence,
                   keywords_searched |-> check.keywords]
    IN  IF ~Has(check, "id") \/ ~Has(check, "requirement")
        THEN [st EXCEPT !.summary = Tally(@, status, weight), !.err = "KeyError"]
        ELSE [summary |-> Tally(st.summary, status, weight),
              std |-> [st.std EXCEPT
                         !.checks = Append(@, result),
                         !.compliant_count =
                             IF status = "COMPLIANT" THEN @ + 1 ELSE @],
              printed |-> st.printed \o CheckLines(result, vb),
              err |-> "none"]

\* One pass of the loop over a standard's checks.  st holds the locals
\* summary and standard_results (std), the lines printed, and the exception
\* that ended the call, if one did.
ProcessCheck(st, check, text, vb) ==
    LET counted == [st EXCEPT !.summary.total_checks = @ + 1,
                              !.summary.total_weight = @ + WeightOf(check),
                              !.std.total_count = @ + 1]
    IN  IF ~Has(check, "keywords") THEN [counted EXCEPT !.err = "KeyError"]
        ELSE IF check.keywords.type = "num"
        THEN [counted EXCEPT !.err = "TypeError"]
        ELSE RecordCheck(counted, check,
                         SearchKeywords(text, check.keywords.items), vb)

RECURSIVE ProcessChecks(_, _, _, _, _)
ProcessChecks(st, checks, i, text, vb) ==
    IF i > Len(checks) \/ st.err # "none" THEN st
    ELSE ProcessChecks(ProcessCheck(st, checks[i], text, vb), checks, i + 1,
                       text, vb)

\* standard_results, had a standard without `priority` counted as HIGH.
NewStandardResultsHighByDefault(item) ==
    [standard_id |-> item.id,
     standard_name |-> item.info.name,
     category |-> IF Has(item.info, "category") THEN item.info.category
                  ELSE "general",
     priority |-> IF Has(item.info, "priority") THEN item.info.priority
                  ELSE "HIGH",
     checks |-> <<>>,
     compliant_count |-> 0,
     total_count |-> 0]

\* standard_results as a pass of the loop over the standards first makes it.
NewStandardResults(item) ==
    [standard_id |-> item.id,
     standard_name |-> item.info.name,
     category |-> IF Has(item.info, "category") THEN item.info.category
                  ELSE "general",
     priority |-> IF Has(item.info, "priority") THEN item.info.priority
                  ELSE "MEDIUM",
     checks |-> <<>>,
     compliant_count |-> 0,
     total_count |-> 0]

\* all_results, had each standard's results been put in front.
CloseStandardInFront(ev, done) ==
    [summary |-> done.summary,
     all_results |-> IF done.err = "none"
                     THEN <<done.std>> \o ev.all_results
                     ELSE ev.all_results,
     printed |-> done.printed,
     err |-> done.err]

\* all_results.append(standard_results), unless the checks loop raised.
CloseStandard(ev, done) ==
    [summary |-> done.summary,
     all_results |-> IF done.err = "none"
                     THEN Append(ev.all_results, done.std)
                     ELSE ev.all_results,
     printed |-> done.printed,
     err |-> done.err]

\* One pass of the loop over the standards.  ev holds summary, all_results,
\* the lines printed and the exception that ended the call.
ProcessStandard(ev, item, text, vb) ==
    LET header == IF vb
                  THEN <<Line("standard", item.id, item.info.name, <<>>, 0, 0)>>
                  ELSE <<>>
    IN  IF ~Has(item.info, "name")
        THEN [ev EXCEPT !.err = "KeyError"]
        ELSE IF ~Has(item.info, "checks")
        THEN [ev EXCEPT !.printed = @ \o header, !.err = "KeyError"]
        ELSE CloseStandard(ev,
                 ProcessChecks([summary |-> ev.summary,
                                std |-> NewStandardResults(item),
                                printed |-> ev.printed \o header,
                                err |-> "none"],
                               item.info.checks, 1, text, vb))

RECURSIVE ProcessStandards(_, _, _, _, _)
ProcessStandards(ev, items, i, text, vb) ==
    IF i > Len(items) \/ ev.err # "none" THEN ev
    ELSE ProcessStandards(ProcessStandard(ev, items[i], text, vb), items, i + 1,
                          text, vb)

\* n * 100 // total if total else 0
Percent(n, total) == IF total # 0 THEN (n * 100) \div total ELSE 0

\* _print_summary
SummaryLines(summary) ==
    <<Line("total_checks", "", "", <<>>, summary.total_checks, 0),
      Line("compliant", "", "", <<>>, summary.compliant,
           Percent(summary.compliant, summary.total_checks)),
      Line("non_compliant", "", "", <<>>, summary.non_compliant,
           Percent(summary.non_compliant, summary.total_checks)),
      Line("missing", "", "", <<>>, summary.missing,
           Percent(summary.missing, summary.total_checks)),
      Line("weighted_score", "", "", <<>>, summary.achieved_weight,
           summary.total_weight),
      Line("rating", Rating(summary.compliance_score), "", <<>>, 0, 0)>>

InitialSummary ==
    [total_checks |-> 0, compliant |-> 0, non_compliant |-> 0, missing |-> 0,
     total_weight |-> 0, achieved_weight |-> 0]

\* The end of check_compliance: the score, the summary printed and the
\* report returned, unless a loop raised.
FinishReport(ev, document_text, vb, timestamp) ==
    LET summary == [total_checks |-> ev.summary.total_checks,
                    compliant |-> ev.summary.compliant,
                    non_compliant |-> ev.summary.non_compliant,
                    missing |-> ev.summary.missing,
                    total_weight |-> ev.summary.total_weight,
                    achieved_weight |-> ev.summary.achieved_weight,
                    compliance_score |-> ComplianceScore(ev.summary)]
    IN  IF ev.err # "none"
        THEN [report |-> None, printed |-> ev.printed, err |-> ev.err]
        ELSE [report |-> Some([summary |-> summary,
                               detailed_results |-> ev.all_results,
                               document_length |-> Len(document_text),
                               timestamp |-> timestamp]),
              printed |-> ev.printed
                          \o (IF vb THEN SummaryLines(summary) ELSE <<>>),
              err |-> "none"]

\* The body of check_compliance: the report and the lines printed, or the
\* exception that ended it.
Evaluate(ruleset, document_text, vb, timestamp) ==
    LET start == [summary |-> InitialSummary, all_results |-> <<>>,
                  printed |-> IF vb THEN <<Say("running_compliance_checks")>>
                              ELSE <<>>,
                  err |-> "none"]
    IN  FinishReport(IF ruleset.type # "dict"
                     THEN [start EXCEPT !.err = "AttributeError"]
                     ELSE ProcessStandards(start, ruleset.items, 1,
                                           Lower(document_text), vb),
                     document_text, vb, timestamp)

\* The document texts check_compliance is called with.
DocChars == {"A", "b"}

DocTexts == SeqsUpTo(DocChars, MaxDocLen)

\* What a check_compliance call leaves behind.
Returns(out, document_text, t) ==
    /\ phase' = "checked"
    /\ now' = t
    /\ docText' = document_text
    /\ report' = out.report
    /\ printed' = out.printed
    /\ raised' = out.err
    /\ recCall' = None

\* self.rules after a call, had the call written the defaults into the
\* checks (check.setdefault) instead of reading them (check.get).
RulesWithDefaults(ruleset) ==
    IF ruleset.type # "dict" THEN ruleset
    ELSE [ruleset EXCEPT !.items =
            [s \in 1..Len(ruleset.items) |->
                [ruleset.items[s] EXCEPT !.info.checks =
                    [c \in 1..Len(ruleset.items[s].info.checks) |->
                        LET check == ruleset.items[s].info.checks[c]
                        IN  [check EXCEPT
                               !.keys = @ \cup {"mandatory", "weight"},
                               !.mandatory = MandatoryOf(check),
                               !.weight = WeightOf(check)]]]]]

\* self.rules after a call: check_compliance only reads it.
RulesAfterCheck(ruleset) == ruleset

\* ComplianceChecker.check_compliance(document_text), called on the checker
\* constructed, as a run of the program calls it (main.py, demo.py); the
\* clock has moved on since the run began.
CheckCompliance(document_text) ==
    /\ phase = "ready"
    /\ \E t \in {now, now + 1} :
          Returns(Evaluate(rules, document_text, verbose, t), document_text, t)
    /\ rules' = RulesAfterCheck(rules)
    /\ UNCHANGED <<fileState, verbose, loadOutput>>
    /\ UNCHANGED <<searchVars, threadVars, restVars>>

\* A further check_compliance call on a checker that has been called, while
\* the clock has not passed MaxClock.
CheckComplianceAgain(document_text) ==
    /\ phase = "checked"
    /\ \E t \in {now, now + 1} :
          /\ t <= MaxClock
          /\ Returns(Evaluate(rules, document_text, verbose, t), document_text, t)
    /\ rules' = RulesAfterCheck(rules)
    /\ UNCHANGED <<fileState, verbose, loadOutput>>
    /\ UNCHANGED <<searchVars, threadVars, restVars>>

(* ---------------------- recommendation generator ---------------------- *)

\* A `results` argument: a dict with some of a report's keys.  What stands
\* under a key is what check_compliance put there.
ReportKeys == {"summary", "detailed_results", "document_length", "timestamp"}

ResultsDict(keys, r) == [keys |-> keys, report |-> r]

\* The dicts a caller hands over: the report as returned, a dict without
\* `summary`, an empty dict.
ResultsArgs(r) ==
    { ResultsDict(ReportKeys, r),
      ResultsDict(ReportKeys \ {"summary"}, r),
      ResultsDict({}, r) }

IsGap(check) == check.status \in {"NON-COMPLIANT", "MISSING"}

\* The items the inner loop of get_non_compliant_items appends for a standard.
GapsOfStandard(standard) ==
    LET open == SelectSeq(standard.checks, IsGap)
    IN  [i \in 1..Len(open) |->
            [standard |-> standard.standard_name,
             requirement |-> open[i].requirement,
             status |-> open[i].status,
             priority |-> standard.priority]]

RECURSIVE GapsFrom(_, _)
GapsFrom(standards, i) ==
    IF i > Len(standards) THEN <<>>
    ELSE GapsOfStandard(standards[i]) \o GapsFrom(standards, i + 1)

\* get_non_compliant_items, had it kept its list from one call to the next.
NonCompliantItemsKept(results) ==
    LET kept == IF /\ recCall # None
                   /\ recCall[1].fn = "get_non_compliant_items"
                   /\ recCall[1].value # None
                THEN recCall[1].value[1]
                ELSE <<>>
    IN  IF ~Has(results, "detailed_results")
        THEN [items |-> <<>>, err |-> "KeyError"]
        ELSE [items |-> kept \o GapsFrom(results.report.detailed_results, 1),
              err |-> "none"]

\* get_non_compliant_items: the list returned, or the exception.
NonCompliantItems(results) ==
    IF ~Has(results, "detailed_results")
    THEN [items |-> <<>>, err |-> "KeyError"]
    ELSE [items |-> GapsFrom(results.report.detailed_results, 1), err |-> "none"]

IsHigh(item) == item.priority = "HIGH"

\* The urgent line, had it counted the high-priority gaps among those listed.
UrgentLinesOfListed(non_compliant) ==
    LET high_priority == SelectSeq(SubSeq(non_compliant, 1,
                                          Min(5, Len(non_compliant))), IsHigh)
    IN  IF high_priority # <<>>
        THEN <<Line("urgent", "", "", <<>>, Len(high_priority), 0)>>
        ELSE <<>>

\* The urgent line: the number of the gaps of HIGH priority, if there is one.
UrgentLines(non_compliant) ==
    LET high_priority == SelectSeq(non_compliant, IsHigh)
    IN  IF high_priority # <<>>
        THEN <<Line("urgent", "", "", <<>>, Len(high_priority), 0)>>
        ELSE <<>>

\* The itemized lines, had every gap been listed.
ItemLinesUncapped(non_compliant) ==
    [i \in 1..Len(non_compliant) |->
        Line("add", non_compliant[i].requirement, non_compliant[i].standard,
             <<>>, 0, 0)]

\* The itemized lines: one for each of non_compliant[:5].
ItemLines(non_compliant) ==
    [i \in 1..Min(5, Len(non_compliant)) |->
        Line("add", non_compliant[i].requirement, non_compliant[i].standard,
             <<>>, 0, 0)]

\* The closing line, had a score of exactly 60 still called for a review.
ClosingLinesReviewAtSixty(score) ==
    IF score <= 6000 THEN <<Say("comprehensive_review")>>
    ELSE IF score < 8000 THEN <<Say("focus_high_priority")>>
    ELSE <<>>

\* The closing line, from the score (in hundredths).
ClosingLines(score) ==
    IF score < 6000 THEN <<Say("comprehensive_review")>>
    ELSE IF score < 8000 THEN <<Say("focus_high_priority")>>
    ELSE <<>>

\* The rest of generate_recommendations once get_non_compliant_items has
\* returned.
RecommendationsOver(results, collected) ==
    IF collected.err # "none" THEN [lines |-> <<>>, err |-> collected.err]
    ELSE IF ~Has(results, "summary") THEN [lines |-> <<>>, err |-> "KeyError"]
    ELSE [lines |-> UrgentLines(collected.items) \o ItemLines(collected.items)
                    \o ClosingLines(results.report.summary.compliance_score),
          err |-> "none"]

\* generate_recommendations: the list returned, or the exception.
Recommendations(results) ==
    RecommendationsOver(results, NonCompliantItems(results))

\* What a call of one of the two leaves behind: its argument, the list it
\* returned if it returned, the exception it raised if it raised.
Answered(fn, results, value, err) ==
    /\ recCall' = Some([fn |-> fn, results |-> results,
                        value |-> IF err = "none" THEN Some(value) ELSE None,
                        err |-> err])
    /\ raised' = err

\* ComplianceChecker.get_non_compliant_items(results), called with the
\* report check_compliance returned or with a dict short of keys.
GetNonCompliantItems ==
    /\ phase = "checked"
    /\ report # None
    /\ \E results \in ResultsArgs(report[1]) :
          Answered("get_non_compliant_items", results,
                   NonCompliantItems(results).items,
                   NonCompliantItems(results).err)
    /\ UNCHANGED <<fileState, verbose, phase, rules, loadOutput, docText,
                   report, printed, now>>
    /\ UNCHANGED <<searchVars, threadVars, restVars>>

\* ComplianceChecker.generate_recommendations(results), likewise.
GenerateRecommendations ==
    /\ phase = "checked"
    /\ report # None
    /\ \E results \in ResultsArgs(report[1]) :
          Answered("generate_recommendations", results,
                   Recommendations(results).lines,
                   Recommendations(results).err)
    /\ UNCHANGED <<fileState, verbose, phase, rules, loadOutput, docText,
                   report, printed, now>>
    /\ UNCHANGED <<searchVars, threadVars, restVars>>

(* ------------------ check_compliance, step by step -------------------- *)

\* Where a call keeps all_results, summary and standard_results: they are
\* local variables, so every call has a frame of its own.
SharedFrame(th) == 1

FrameOf(th) == th

\* The locals as the head of check_compliance leaves them (lines 108-125).
EnteredFrame(document_text, vb) ==
    [text |-> Lower(document_text),
     ev |-> Some([summary |-> InitialSummary, all_results |-> <<>>,
                  printed |-> IF vb THEN <<Say("running_compliance_checks")>>
                              ELSE <<>>,
                  err |-> "none"]),
     st |-> None]

\* A call begins: the head of check_compliance, up to the loop.
Enter(th, document_text) ==
    /\ phase = "ready"
    /\ calls[th].pc = "idle"
    /\ calls' = [calls EXCEPT ![th] =
                    [pc |-> "standards", document_text |-> document_text,
                     i |-> 1, c |-> 0, out |-> None]]
    /\ frames' = [frames EXCEPT ![FrameOf(th)] =
                     EnteredFrame(document_text, verbose)]
    /\ UNCHANGED <<checkerVars, searchVars, recVars, restVars>>

\* What the loop over the standards does to the locals when it takes up
\* item: standard_results is made, unless a key is missing.
OpenedFrame(frame, item, vb) ==
    LET header == IF vb
                  THEN <<Line("standard", item.id, item.info.name, <<>>, 0, 0)>>
                  ELSE <<>>
    IN  IF ~Has(item.info, "name")
        THEN [frame EXCEPT !.ev[1].err = "KeyError"]
        ELSE IF ~Has(item.info, "checks")
        THEN [frame EXCEPT !.ev[1].printed = @ \o header,
                           !.ev[1].err = "KeyError"]
        ELSE [frame EXCEPT !.st = Some([summary |-> frame.ev[1].summary,
                                        std |-> NewStandardResults(item),
                                        printed |-> frame.ev[1].printed \o header,
                                        err |-> "none"])]

\* The call stops with the exception its locals record.
Raise(th, frame) ==
    calls' = [calls EXCEPT ![th].pc = "raised",
                           ![th].out = Some([report |-> None,
                                             printed |-> frame.ev[1].printed,
                                             err |-> frame.ev[1].err])]

\* The loop over the standards takes up the next standard.
OpenStandard(th) ==
    /\ calls[th].pc = "standards"
    /\ rules.type = "dict"
    /\ calls[th].i <= Len(rules.items)
    /\ frames' = [frames EXCEPT ![FrameOf(th)] =
                     OpenedFrame(@, rules.items[calls[th].i], verbose)]
    /\ IF frames'[FrameOf(th)].ev[1].err # "none"
       THEN Raise(th, frames'[FrameOf(th)])
       ELSE calls' = [calls EXCEPT ![th].pc = "checks", ![th].c = 1]
    /\ UNCHANGED <<checkerVars, searchVars, recVars, restVars>>

\* The locals after one pass of the loop over the checks; an exception is
\* recorded where the call's end will find it.
SteppedFrame(frame, check, vb) ==
    LET st == ProcessCheck(frame.st[1], check, frame.text, vb)
    IN  IF st.err = "none" THEN [frame EXCEPT !.st = Some(st)]
        ELSE [frame EXCEPT !.st = Some(st),
                           !.ev[1].printed = st.printed,
                           !.ev[1].err = st.err]

\* One pass of the loop over the checks of the standard taken up.
StepCheck(th) ==
    /\ calls[th].pc = "checks"
    /\ calls[th].c <= Len(rules.items[calls[th].i].info.checks)
    /\ frames[FrameOf(th)].st # None
    /\ frames' = [frames EXCEPT ![FrameOf(th)] =
                     SteppedFrame(@, rules.items[calls[th].i].info.checks[calls[th].c],
                                  verbose)]
    /\ IF frames'[FrameOf(th)].ev[1].err # "none"
       THEN Raise(th, frames'[FrameOf(th)])
       ELSE calls' = [calls EXCEPT ![th].c = @ + 1]
    /\ UNCHANGED <<checkerVars, searchVars, recVars, restVars>>

\* The loop over the checks is through: all_results.append(standard_results).
EndStandard(th) ==
    /\ calls[th].pc = "checks"
    /\ calls[th].c > Len(rules.items[calls[th].i].info.checks)
    /\ frames[FrameOf(th)].st # None
    /\ frames' = [frames EXCEPT ![FrameOf(th)] =
                     [@ EXCEPT !.ev = Some(CloseStandard(@[1], frames[FrameOf(th)].st[1])),
                               !.st = None]]
    /\ calls' = [calls EXCEPT ![th].pc = "standards", ![th].i = @ + 1]
    /\ UNCHANGED <<checkerVars, searchVars, recVars, restVars>>

\* The loop over the standards is through, or self.rules has no items():
\* the score, the summary printed, the timestamp, the report returned.
Leave(th) ==
    /\ calls[th].pc = "standards"
    /\ rules.type = "dict" => calls[th].i > Len(rules.items)
    /\ \E t \in {now, now + 1} :
          /\ t <= MaxClock
          /\ now' = t
          /\ calls' = [calls EXCEPT
                 ![th].pc = IF rules.type = "dict" THEN "returned" ELSE "raised",
                 ![th].out =
                     Some(FinishReport(
                              IF rules.type = "dict" THEN frames[FrameOf(th)].ev[1]
                              ELSE [frames[FrameOf(th)].ev[1] EXCEPT
                                       !.err = "AttributeError"],
                              calls[th].document_text, verbose, t))]
    /\ UNCHANGED <<fileState, verbose, phase, rules, loadOutput, raised, docText,
                   report, printed>>
    /\ UNCHANGED <<frames, searchVars, recVars, restVars>>

(* -------------------------- document processor ------------------------ *)

\* A page of a PDF: the text page.extract_text() gives (empty when the page
\* is an image) and the text OCR reads off its image.
Page(digital, ocr) == [digital |-> digital, ocr |-> ocr]

DigitalPage == Page(<<"A", " ", "b">>, <<"A", " ", "b">>)

ScannedPage == Page(<<>>, <<"b">>)

BlankPage == Page(<<>>, <<>>)

\* The pages of a PDF of n pages: all digital, all scanned, or a digital, a
\* scanned and a blank page in turn.
Pages(layout, n) ==
    [i \in 1..n |->
        CASE layout = "digital" -> DigitalPage
          [] layout = "scanned" -> ScannedPage
          [] OTHER -> IF i % 3 = 1 THEN DigitalPage
                      ELSE IF i % 3 = 2 THEN ScannedPage
                      ELSE BlankPage]

Layouts == {"digital", "scanned", "mixed"}

\* The file at pdf_path: whether it exists, the end of its name, its pages,
\* whether pdfplumber opens it and whether pdf2image and Tesseract work on it.
PdfFile(exists, ext, pages, opens, ocrWorks) ==
    [exists |-> exists, ext |-> ext, pages |-> pages, opens |-> opens,
     ocrWorks |-> ocrWorks]

NoPdf == PdfFile(FALSE, "", <<>>, FALSE, FALSE)

NoArgs == [max_pages |-> None, min_text_threshold |-> 0]

\* len(text.split())
WordCount(t) ==
    Cardinality({i \in 1..Len(t) :
                    /\ ~IsSpace(t[i])
                    /\ (i = 1 \/ IsSpace(t[i - 1]))})

\* x or default, for an optional integer x
OrElse(x, default) == IF x # None /\ x[1] # 0 THEN x[1] ELSE default

\* An entry of page_texts.
PageData(i, page_text, with_note) ==
    [page_num |-> i, text |-> page_text, char_count |-> Len(page_text),
     word_count |-> WordCount(page_text), note |-> with_note]

\* The result of an extraction that raised inside: no text, and the error
\* in the metadata.
FailedExtraction(method) ==
    [text |-> <<>>, page_texts |-> <<>>,
     metadata |-> [keys |-> {"method", "error"}, method |-> method,
                   total_pages |-> 0, processed_pages |-> 0,
                   pages_with_text |-> 0, total_characters |-> 0,
                   total_words |-> 0]]

\* full_text after the first n pages: every page text that is kept, with two
\* line feeds after it.
RECURSIVE FullText(_, _, _)
FullText(texts, n, keep_empty) ==
    IF n = 0 THEN <<>>
    ELSE FullText(texts, n - 1, keep_empty)
         \o (IF texts[n] # <<>> \/ keep_empty
             THEN texts[n] \o <<"\n", "\n">>
             ELSE <<>>)

HasText(page_data) == page_data.char_count > 0

\* The result of an extraction that went through.
Extraction(method, keys, full_text, page_texts, total_pages, processed) ==
    [text |-> full_text, page_texts |-> page_texts,
     metadata |-> [keys |-> keys, method |-> method,
                   total_pages |-> total_pages,
                   processed_pages |-> processed,
                   pages_with_text |-> Len(SelectSeq(page_texts, HasText)),
                   total_characters |-> Len(full_text),
                   total_words |-> WordCount(full_text)]]

DigitalKeys ==
    {"total_pages", "processed_pages", "method", "pages_with_text",
     "total_characters", "total_words"}

OcrKeys ==
    {"total_pages", "processed_pages", "method", "total_characters",
     "total_words"}

\* _extract_digital_text
ExtractDigitalText(file, max_pages) ==
    IF ~file.opens THEN FailedExtraction("digital")
    ELSE LET total_pages == Len(file.pages)
             pages_to_process == Min(OrElse(max_pages, total_pages),
                                     total_pages)
             texts == [i \in 1..pages_to_process |-> file.pages[i].digital]
         IN  Extraction("digital", DigitalKeys,
                        FullText(texts, pages_to_process, FALSE),
                        [i \in 1..pages_to_process |->
                            PageData(i, texts[i], texts[i] = <<>>)],
                        total_pages, pages_to_process)

\* _extract_with_ocr: the images of pages 1 to max_pages, read one by one.
ExtractWithOcr(file, max_pages) ==
    IF ~file.ocrWorks THEN FailedExtraction("ocr")
    ELSE LET images == Min(max_pages, Len(file.pages))
             texts == [i \in 1..images |-> file.pages[i].ocr]
         IN  Extraction("ocr", OcrKeys, FullText(texts, images, TRUE),
                        [i \in 1..images |-> PageData(i, texts[i], FALSE)],
                        images, images)

Returning(result) == [result |-> Some(result), err |-> "none"]

Raising(err) == [result |-> None, err |-> err]

\* The fallback of extract_text_from_pdf: OCR when the digital text is short.
FallBack(file, max_pages, min_text_threshold, result) ==
    IF Len(result.text) < min_text_threshold
    THEN ExtractWithOcr(file, OrElse(max_pages, OcrDefaultPages))
    ELSE result

SupportedFormats == {".pdf", ".PDF"}

\* extract_text_from_pdf: the result returned, or the exception
ExtractTextFromPdf(file, max_pages, min_text_threshold) ==
    IF ~file.exists THEN Raising("FileNotFoundError")
    ELSE IF file.ext \notin SupportedFormats THEN Raising("ValueError")
    ELSE Returning(FallBack(file, max_pages, min_text_threshold,
                            ExtractDigitalText(file, max_pages)))

\* sum(p['char_count'] for p in page_texts[:n])
RECURSIVE SumChars(_, _)
SumChars(page_texts, n) ==
    IF n = 0 THEN 0
    ELSE SumChars(page_texts, n - 1) + page_texts[n].char_count

\* get_statistics; the average is the fraction <<sum, pages>>
GetStatistics(extraction_result) ==
    LET text == extraction_result.text
        page_texts == extraction_result.page_texts
    IN  [total_characters |-> Len(text),
         total_words |-> WordCount(text),
         total_lines |-> Len(SelectSeq(text, LAMBDA c : c = "\n")) + 1,
         total_pages |-> Len(page_texts),
         pages_with_content |-> Len(SelectSeq(page_texts, HasText)),
         avg_chars_per_page |->
             IF page_texts # <<>>
             THEN <<SumChars(page_texts, Len(page_texts)), Len(page_texts)>>
             ELSE <<0, 1>>,
         method |-> extraction_result.metadata.method]

\* DocumentProcessor.extract_text_from_pdf(pdf_path, max_pages,
\* min_text_threshold)
ExtractText ==
    /\ extracted = None
    /\ extracted' = Some(ExtractTextFromPdf(pdf, extractArgs.max_pages,
                                            extractArgs.min_text_threshold))
    /\ UNCHANGED <<pdf, extractArgs>>
    /\ UNCHANGED <<coreVars, ratingVars, segmentVars, runVars>>

(* -------------------------- document segmenter ------------------------ *)

\* A literal piece of a pattern and what follows it.
Piece(lit, gap) == [lit |-> lit, gap |-> gap]

\* self.section_patterns: for every section its patterns in order, a pattern
\* being the ways it can match: literal pieces, each followed by a run of
\* blanks (one or more for "plus", any number for "star") or by nothing.
SectionPatterns ==
    [balance_sheet |->
       << \* balance\s+sheet
          { <<
                Piece(<<"b", "a", "l", "a", "n", "c", "e">>, "plus"),
                Piece(<<"s", "h", "e", "e", "t">>, "end")
            >> },
          \* statement\s+of\s+financial\s+position
          { <<
                Piece(<<"s", "t", "a", "t", "e", "m", "e", "n", "t">>,
                "plus"),
                Piece(<<"o", "f">>, "plus"),
                Piece(<<"f", "i", "n", "a", "n", "c", "i", "a", "l">>,
                "plus"),
                Piece(<<"p", "o", "s", "i", "t", "i", "o", "n">>, "end")
            >> } >>,
     profit_loss |->
       << \* profit\s+and\s+loss
          { <<
                Piece(<<"p", "r", "o", "f", "i", "t">>, "plus"),
                Piece(<<"a", "n", "d">>, "plus"),
                Piece(<<"l", "o", "s", "s">>, "end")
            >> },
          \* statement\s+of\s+profit\s+and\s+loss
          { <<
                Piece(<<"s", "t", "a", "t", "e", "m", "e", "n", "t">>,
                "plus"),
                Piece(<<"o", "f">>, "plus"),
                Piece(<<"p", "r", "o", "f", "i", "t">>, "plus"),
                Piece(<<"a", "n", "d">>, "plus"),
                Piece(<<"l", "o", "s", "s">>, "end")
            >> },
          \* income\s+statement
          { <<
                Piece(<<"i", "n", "c", "o", "m", "e">>, "plus"),
                Piece(<<"s", "t", "a", "t", "e", "m", "e", "n", "t">>,
                "end")
            >> } >>,
     cash_flow |->
       << \* cash\s+flow\s+statement
          { <<
                Piece(<<"c", "a", "s", "h">>, "plus"),
                Piece(<<"f", "l", "o", "w">>, "plus"),
                Piece(<<"s", "t", "a", "t", "e", "m", "e", "n", "t">>,
                "end")
            >> },
          \* statement\s+of\s+cash\s+flows
          { <<
                Piece(<<"s", "t", "a", "t", "e", "m", "e", "n", "t">>,
                "plus"),
                Piece(<<"o", "f">>, "plus"),
                Piece(<<"c", "a", "s", "h">>, "plus"),
                Piece(<<"f", "l", "o", "w", "s">>, "end")
            >> } >>,
     equity_changes |->
       << \* changes\s+in\s+equity
          { <<
                Piece(<<"c", "h", "a", "n", "g", "e", "s">>, "plus"),
                Piece(<<"i", "n">>, "plus"),
                Piece(<<"e", "q", "u", "i", "t", "y">>, "end")
            >> },
          \* statement\s+of\s+changes\s+in\s+equity
          { <<
                Piece(<<"s", "t", "a", "t", "e", "m", "e", "n", "t">>,
                "plus"),
                Piece(<<"o", "f">>, "plus"),
                Piece(<<"c", "h", "a", "n", "g", "e", "s">>, "plus"),
                Piece(<<"i", "n">>, "plus"),
                Piece(<<"e", "q", "u", "i", "t", "y">>, "end")
            >> } >>,
     notes_to_accounts |->
       << \* notes\s+to\s+accounts
          { <<
                Piece(<<"n", "o", "t", "e", "s">>, "plus"),
                Piece(<<"t", "o">>, "plus"),
                Piece(<<"a", "c", "c", "o", "u", "n", "t", "s">>, "end")
            >> },
          \* notes\s+forming\s+part
          { <<
                Piece(<<"n", "o", "t", "e", "s">>, "plus"),
                Piece(<<"f", "o", "r", "m", "i", "n", "g">>, "plus"),
                Piece(<<"p", "a", "r", "t">>, "end")
            >> },
          \* notes\s+to\s+(the\s+)?financial\s+statements
          { <<
                Piece(<<"n", "o", "t", "e", "s">>, "plus"),
                Piece(<<"t", "o">>, "plus"),
                Piece(<<"f", "i", "n", "a", "n", "c", "i", "a", "l">>,
                "plus"),
                Piece(<<"s", "t", "a", "t", "e", "m", "e", "n", "t", "s">>,
                "end")
            >>,
            <<
                Piece(<<"n", "o", "t", "e", "s">>, "plus"),
                Piece(<<"t", "o">>, "plus"),
                Piece(<<"t", "h", "e">>, "plus"),
                Piece(<<"f", "i", "n", "a", "n", "c", "i", "a", "l">>,
                "plus"),
                Piece(<<"s", "t", "a", "t", "e", "m", "e", "n", "t", "s">>,
                "end")
            >> } >>,
     auditor_report |->
       << \* independent\s+auditor
          { <<
                Piece(<<"i", "n", "d", "e", "p", "e", "n", "d", "e", "n",
                "t">>, "plus"),
                Piece(<<"a", "u", "d", "i", "t", "o", "r">>, "end")
            >> },
          \* auditor\'?s\s+report
          { <<
                Piece(<<"a", "u", "d", "i", "t", "o", "r", "s">>, "plus"),
                Piece(<<"r", "e", "p", "o", "r", "t">>, "end")
            >>,
            <<
                Piece(<<"a", "u", "d", "i", "t", "o", "r", "'", "s">>,
                "plus"),
                Piece(<<"r", "e", "p", "o", "r", "t">>, "end")
            >> },
          \* report\s+of\s+the\s+statutory\s+auditors
          { <<
                Piece(<<"r", "e", "p", "o", "r", "t">>, "plus"),
                Piece(<<"o", "f">>, "plus"),
                Piece(<<"t", "h", "e">>, "plus"),
                Piece(<<"s", "t", "a", "t", "u", "t", "o", "r", "y">>,
                "plus"),
                Piece(<<"a", "u", "d", "i", "t", "o", "r", "s">>, "end")
            >> } >>,
     directors_report |->
       << \* director\'?s\s+report
          { <<
                Piece(<<"d", "i", "r", "e", "c", "t", "o", "r", "s">>,
                "plus"),
                Piece(<<"r", "e", "p", "o", "r", "t">>, "end")
            >>,
            <<
                Piece(<<"d", "i", "r", "e", "c", "t", "o", "r", "'", "s">>,
                "plus"),
                Piece(<<"r", "e", "p", "o", "r", "t">>, "end")
            >> },
          \* board\'?s\s+report
          { <<
                Piece(<<"b", "o", "a", "r", "d", "s">>, "plus"),
                Piece(<<"r", "e", "p", "o", "r", "t">>, "end")
            >>,
            <<
                Piece(<<"b", "o", "a", "r", "d", "'", "s">>, "plus"),
                Piece(<<"r", "e", "p", "o", "r", "t">>, "end")
            >> } >>,
     corporate_governance |->
       << \* corporate\s+governance\s+report
          { <<
                Piece(<<"c", "o", "r", "p", "o", "r", "a", "t", "e">>,
                "plus"),
                Piece(<<"g", "o", "v", "e", "r", "n", "a", "n", "c", "e">>,
                "plus"),
                Piece(<<"r", "e", "p", "o", "r", "t">>, "end")
            >> },
          \* report\s+on\s+corporate\s+governance
          { <<
                Piece(<<"r", "e", "p", "o", "r", "t">>, "plus"),
                Piece(<<"o", "n">>, "plus"),
                Piece(<<"c", "o", "r", "p", "o", "r", "a", "t", "e">>,
                "plus"),
                Piece(<<"g", "o", "v", "e", "r", "n", "a", "n", "c", "e">>,
                "end")
            >> } >>,
     management_discussion |->
       << \* management\s+discussion
          { <<
                Piece(<<"m", "a", "n", "a", "g", "e", "m", "e", "n", "t">>,
                "plus"),
                Piece(<<"d", "i", "s", "c", "u", "s", "s", "i", "o", "n">>,
                "end")
            >> },
          \* md\s*&\s*a
          { <<
                Piece(<<"m", "d">>, "star"),
                Piece(<<"&">>, "star"),
                Piece(<<"a">>, "end")
            >> },
          \* management\'?s\s+discussion\s+and\s+analysis
          { <<
                Piece(<<"m", "a", "n", "a", "g", "e", "m", "e", "n", "t",
                "s">>, "plus"),
                Piece(<<"d", "i", "s", "c", "u", "s", "s", "i", "o", "n">>,
                "plus"),
                Piece(<<"a", "n", "d">>, "plus"),
                Piece(<<"a", "n", "a", "l", "y", "s", "i", "s">>, "end")
            >>,
            <<
                Piece(<<"m", "a", "n", "a", "g", "e", "m", "e", "n", "t",
                "'", "s">>, "plus"),
                Piece(<<"d", "i", "s", "c", "u", "s", "s", "i", "o", "n">>,
                "plus"),
                Piece(<<"a", "n", "d">>, "plus"),
                Piece(<<"a", "n", "a", "l", "y", "s", "i", "s">>, "end")
            >> } >>]

\* The sections in the order of self.section_patterns.
SectionNames ==
    <<"balance_sheet", "profit_loss", "cash_flow", "equity_changes",
    "notes_to_accounts", "auditor_report", "directors_report",
    "corporate_governance", "management_discussion">>

Sections == { SectionNames[i] : i \in 1..Len(SectionNames) }

\* The length of the run of blanks of t that starts at offset pos.
BlankRun(t, pos) ==
    LET stops == {n \in 0..(Len(t) - pos) :
                     pos + n = Len(t) \/ ~IsSpace(t[pos + n + 1])}
    IN  CHOOSE n \in stops : \A m \in stops : n <= m

\* Whether the pieces of alt from the k-th on match t at offset pos.  The
\* piece after a run of blanks starts with a letter, so the run is matched
\* whole.
RECURSIVE MatchesAt(_, _, _, _)
MatchesAt(t, alt, k, pos) ==
    LET piece == alt[k]
        after == pos + Len(piece.lit)
    IN  /\ after <= Len(t)
        /\ Slice(t, pos, after) = piece.lit
        /\ \/ piece.gap = "end"
           \/ /\ piece.gap = "plus" => BlankRun(t, after) >= 1
              /\ MatchesAt(t, alt, k + 1, after + BlankRun(t, after))

\* re.search(pattern, text_lower, re.IGNORECASE), for a pattern in lower case
ReSearch(pattern, text_lower) ==
    \E alt \in pattern : \E pos \in 0..Len(text_lower) :
        MatchesAt(text_lower, alt, 1, pos)

\* _find_section's result before the first page.
NoSection ==
    [found |-> FALSE, pages |-> <<>>, text |-> <<>>, start_page |-> None,
     end_page |-> None, total_chars |-> 0]

\* What the body of `if re.search(...)` makes of result.
Matched(result, page_data) ==
    [found |-> TRUE,
     pages |-> Append(result.pages, page_data.page_num),
     text |-> result.text \o page_data.text \o <<"\n">>,
     start_page |-> IF ~result.found THEN Some(page_data.page_num)
                    ELSE result.start_page,
     end_page |-> Some(page_data.page_num),
     total_chars |-> result.total_chars + Len(page_data.text)]

\* The loop over the patterns, had it gone on after a match.
RECURSIVE CheckPatternsNoBreak(_, _, _, _, _)
CheckPatternsNoBreak(result, page_data, text_lower, patterns, j) ==
    IF j > Len(patterns) THEN result
    ELSE CheckPatternsNoBreak(
             IF ReSearch(patterns[j], text_lower)
             THEN Matched(result, page_data)
             ELSE result,
             page_data, text_lower, patterns, j + 1)

\* The loop over the patterns from the j-th on, for one page: the first
\* pattern that matches ends it.
RECURSIVE CheckPatterns(_, _, _, _, _)
CheckPatterns(result, page_data, text_lower, patterns, j) ==
    IF j > Len(patterns) THEN result
    ELSE IF ReSearch(patterns[j], text_lower)
    THEN Matched(result, page_data)
    ELSE CheckPatterns(result, page_data, text_lower, patterns, j + 1)

\* The loop over the pages from the i-th on.
RECURSIVE FindSectionFrom(_, _, _, _)
FindSectionFrom(page_texts, patterns, i, result) ==
    IF i > Len(page_texts) THEN result
    ELSE FindSectionFrom(page_texts, patterns, i + 1,
             CheckPatterns(result, page_texts[i],
                           Lower(page_texts[i].text), patterns, 1))

\* _find_section
FindSection(page_texts, patterns) ==
    FindSectionFrom(page_texts, patterns, 1, NoSection)

\* segment_document
SegmentDocument(page_texts) ==
    [name \in Sections |-> FindSection(page_texts, SectionPatterns[name])]

\* build_document_structure
BuildDocumentStructure(page_texts) ==
    LET sections == SegmentDocument(page_texts)
    IN  [total_pages |-> Len(page_texts),
         sections |-> sections,
         metadata |->
             [segmentation_method |-> "regex_pattern_matching",
              sections_found |->
                  Cardinality({name \in Sections : sections[name].found}),
              total_sections_tracked |-> Cardinality(Sections)]]

\* DocumentSegmenter.build_document_structure(page_texts)
BuildStructure ==
    /\ structure = None
    /\ structure' = Some(BuildDocumentStructure(pageTexts))
    /\ UNCHANGED pageTexts
    /\ UNCHANGED <<coreVars, ratingVars, extractVars, runVars>>

(* ------------------------- the specifications ------------------------- *)

SearchIdle ==
    /\ sText = <<>>
    /\ sKeywords = <<>>
    /\ sResult = None

\* No concurrent call under way.
Threads == {1, 2}

IdleCall == [pc |-> "idle", document_text |-> <<>>, i |-> 0, c |-> 0, out |-> None]

NoFrame == [text |-> <<>>, ev |-> None, st |-> None]

ThreadsIdle ==
    /\ calls = [th \in Threads |-> IdleCall]
    /\ frames = [th \in Threads |-> NoFrame]

\* No score rated.
NotRated == [score |-> 0, summary |-> None, label |-> None]

\* No tables looked for, no file written.
NoTables == [found |-> 0, excel_path |-> FALSE]

NoFiles == [excel |-> FALSE, html |-> None, json |-> None]

\* No run of main.py or demo.py under way.
RunIdle ==
    /\ pc = "off"
    /\ stats = None
    /\ tables = NoTables
    /\ files = NoFiles
    /\ console = <<>>

\* The programs around the checker not run, but for one part of them.
RestIdleBut(part) ==
    /\ part = "rating" \/ rated = NotRated
    /\ part = "extract" \/ (pdf = NoPdf /\ extractArgs = NoArgs /\ extracted = None)
    /\ part = "segment" \/ (pageTexts = <<>> /\ structure = None)
    /\ RunIdle

RestIdle == RestIdleBut("none")

\* A checker not constructed, over no rules file.
CheckerIdle ==
    /\ fileState = [kind |-> "absent", value |-> RulesDict(<<>>)]
    /\ verbose = FALSE
    /\ phase = "new"
    /\ rules = RulesDict(<<>>)
    /\ loadOutput = <<>>
    /\ raised = "none"
    /\ docText = <<>>
    /\ report = None
    /\ printed = <<>>
    /\ now = 0

\* Nothing of the checker going on.
AllIdleBut(part) ==
    /\ CheckerIdle
    /\ SearchIdle
    /\ recCall = None
    /\ ThreadsIdle
    /\ RestIdleBut(part)

\* Nothing else going on: no search alone, no recommendations asked for, no
\* concurrent calls.
Quiet ==
    /\ recCall = None
    /\ ThreadsIdle
    /\ RestIdle

\* A rules file, a verbosity, and a checker not yet constructed.
Init ==
    /\ IsRulesFile(fileState)
    /\ verbose \in BOOLEAN
    /\ phase = "new"
    /\ rules = RulesDict(<<>>)
    /\ loadOutput = <<>>
    /\ raised = "none"
    /\ docText = <<>>
    /\ report = None
    /\ printed = <<>>
    /\ now = 0
    /\ SearchIdle
    /\ Quiet

Next ==
    \/ Construct
    \/ \E d \in DocTexts : CheckCompliance(d)

Spec == Init /\ [][Next]_vars

(* ----------------- a report and its recommendations ------------------- *)

\* The checks of the rule sets recommendations are generated for: one
\* mandatory, of weight 10, and one optional, of weight 5.
RecPool ==
    { Check(AllCheckKeys, "c1", "R1", KwList(<< <<"a">> >>), TRUE, 10),
      Check(AllCheckKeys, "c2", "R2", KwList(<< <<"b">> >>), FALSE, 5) }

\* An empty rule set, or two standards, the second of priority HIGH, with up
\* to MaxRecChecks checks between them.
IsRecFile(file) ==
    \E cs \in SeqsUpTo(RecPool, MaxRecChecks) :
       \E n \in {0, 2} :
          \E pieces \in Cuts(cs, n) :
             \E r \in RulesOver(pieces) :
                file = [kind |-> "json", value |-> r]

RecDocs == { <<>>, <<"A">>, <<"b">>, <<"A", "b">> }

\* A rules file and a quiet checker not yet constructed.
RecInit ==
    /\ IsRecFile(fileState)
    /\ verbose = FALSE
    /\ phase = "new"
    /\ rules = RulesDict(<<>>)
    /\ loadOutput = <<>>
    /\ raised = "none"
    /\ docText = <<>>
    /\ report = None
    /\ printed = <<>>
    /\ now = 0
    /\ SearchIdle
    /\ Quiet

\* The checker is constructed, a document is checked, and the report is
\* handed to the recommendation generator.
RecNext ==
    \/ Construct
    \/ \E d \in RecDocs : CheckCompliance(d)
    \/ GetNonCompliantItems
    \/ GenerateRecommendations

RecSpec == RecInit /\ [][RecNext]_vars

(* -------------------- a checker called repeatedly --------------------- *)

\* No rules file, or one standard with up to MaxTotalChecks checks.
IsSessionFile(file) ==
    \/ file = [kind |-> "absent", value |-> RulesDict(<<>>)]
    \/ \E cs \in SeqsUpTo(CheckPool, MaxTotalChecks) :
          \E r \in RulesOver(<<cs>>) :
             file = [kind |-> "json", value |-> r]

SessionDocs == { <<>>, <<"A">>, <<"A", "b">> }

SessionInit ==
    /\ IsSessionFile(fileState)
    /\ verbose \in BOOLEAN
    /\ phase = "new"
    /\ rules = RulesDict(<<>>)
    /\ loadOutput = <<>>
    /\ raised = "none"
    /\ docText = <<>>
    /\ report = None
    /\ printed = <<>>
    /\ now = 0
    /\ SearchIdle
    /\ Quiet

\* The checker is constructed and then called any number of times, in any
\* order.
SessionNext ==
    \/ Construct
    \/ \E d \in SessionDocs : CheckCompliance(d)
    \/ \E d \in SessionDocs : CheckComplianceAgain(d)
    \/ GetNonCompliantItems
    \/ GenerateRecommendations

SessionSpec == SessionInit /\ [][SessionNext]_vars

(* ----------------------- two calls at a time -------------------------- *)

\* The checks of the rule sets the concurrent calls run over: the two of
\* RecPool and one without an id.
ConcPool ==
    RecPool
    \cup { Check(AllCheckKeys \ {"id"}, "", "R5", KwList(<< <<"a">> >>), TRUE, 5) }

\* A JSON array, or one or two standards with up to MaxTotalChecks checks.
IsConcFile(file) ==
    \/ file = [kind |-> "json", value |-> RulesArray]
    \/ \E cs \in SeqsUpTo(ConcPool, MaxTotalChecks) :
          \E n \in {1, 2} :
             \E pieces \in Cuts(cs, n) :
                \E r \in RulesOver(pieces) :
                   file = [kind |-> "json", value |-> r]

ConcDocs == { <<>>, <<"A">>, <<"A", "b">> }

ConcInit ==
    /\ IsConcFile(fileState)
    /\ verbose \in BOOLEAN
    /\ phase = "new"
    /\ rules = RulesDict(<<>>)
    /\ loadOutput = <<>>
    /\ raised = "none"
    /\ docText = <<>>
    /\ report = None
    /\ printed = <<>>
    /\ now = 0
    /\ SearchIdle
    /\ Quiet

\* The checker is constructed; then two threads call check_compliance on it,
\* their steps interleaved in any way.
ConcNext ==
    \/ Construct
    \/ \E th \in Threads : \E d \in ConcDocs : Enter(th, d)
    \/ \E th \in Threads : OpenStandard(th)
    \/ \E th \in Threads : StepCheck(th)
    \/ \E th \in Threads : EndStandard(th)
    \/ \E th \in Threads : Leave(th)

ConcSpec == ConcInit /\ [][ConcNext]_vars

(* ----------------------- evidence search alone ------------------------ *)

\* The characters of the texts and keywords the search is run on.
SearchChars == {"a", "A", "b", " ", "SIGMA"}

SearchTexts == SeqsUpTo(SearchChars, MaxTextLen)

KeywordLists == SeqsUpTo(SeqsUpTo(SearchChars, MaxKwLen), MaxKeywords)

\* check_compliance's evidence search for one check: the document text is
\* lowercased, then searched for the check's keywords.
RunSearch ==
    /\ sResult = None
    /\ sResult' = Some(SearchKeywords(Lower(sText), sKeywords))
    /\ UNCHANGED <<sText, sKeywords>>
    /\ UNCHANGED <<checkerVars, recVars, threadVars, restVars>>

\* A document text and a keyword list, and the search not yet run.
SearchInit ==
    /\ sText \in SearchTexts
    /\ sKeywords \in KeywordLists
    /\ sResult = None
    /\ fileState = [kind |-> "absent", value |-> RulesDict(<<>>)]
    /\ verbose = FALSE
    /\ phase = "new"
    /\ rules = RulesDict(<<>>)
    /\ loadOutput = <<>>
    /\ raised = "none"
    /\ docText = <<>>
    /\ report = None
    /\ printed = <<>>
    /\ now = 0
    /\ Quiet

SearchNext == RunSearch

SearchSpec == SearchInit /\ [][SearchNext]_vars

(* -------------------- evidence window on long texts ------------------- *)

\* n characters of filling: letters only, blanks only, or a letter after
\* every two blanks.
Fill(kind, n) ==
    [i \in 1..n |->
        CASE kind = "solid" -> "B"
          [] kind = "blank" -> " "
          [] OTHER -> IF i % 3 = 0 THEN "b" ELSE " "]

FillKinds == {"solid", "blank", "gappy"}

\* The lengths of filling on either side of the keyword: none, one, and
\* around context_length.
FillLens ==
    {0, 1} \cup ((ContextLength - WindowSlack)..(ContextLength + WindowSlack))

\* Document texts with one occurrence of the letter a, in either case,
\* filling on both sides of it, and possibly a second occurrence at the end.
WindowTexts ==
    { Fill(lk, p) \o <<core>> \o Fill(rk, q) \o tail :
        lk \in FillKinds, p \in FillLens, rk \in FillKinds, q \in FillLens,
        core \in {"a", "A"}, tail \in {<<>>, <<"a">>} }

WindowKeywords == { << <<"a">> >>, << <<"A">> >> }

\* A long document text and a keyword it holds, and the search not yet run.
WindowInit ==
    /\ sText \in WindowTexts
    /\ sKeywords \in WindowKeywords
    /\ sResult = None
    /\ fileState = [kind |-> "absent", value |-> RulesDict(<<>>)]
    /\ verbose = FALSE
    /\ phase = "new"
    /\ rules = RulesDict(<<>>)
    /\ loadOutput = <<>>
    /\ raised = "none"
    /\ docText = <<>>
    /\ report = None
    /\ printed = <<>>
    /\ now = 0
    /\ Quiet

WindowNext == RunSearch

WindowSpec == WindowInit /\ [][WindowNext]_vars

(* ------------------------ the rating of a score ----------------------- *)

\* The scores a report can carry: 0.00 to 100.00, in hundredths.
Scores == 0..FullScore

\* _print_summary prints the rating of the summary's score.
PrintRating ==
    /\ rated.summary = None
    /\ rated' = [rated EXCEPT !.summary = Some(Rating(rated.score))]
    /\ UNCHANGED <<coreVars, extractVars, segmentVars, runVars>>

\* _build_html renders the rating label of the summary's score.
RenderRating ==
    /\ rated.label = None
    /\ rated' = [rated EXCEPT !.label = Some(GetRatingLabel(rated.score))]
    /\ UNCHANGED <<coreVars, extractVars, segmentVars, runVars>>

\* A score, rated nowhere yet.
RatingInit ==
    /\ rated \in [score : Scores, summary : {None}, label : {None}]
    /\ AllIdleBut("rating")

RatingNext ==
    \/ PrintRating
    \/ RenderRating

RatingSpec == RatingInit /\ [][RatingNext]_vars

(* ------------------------- text extraction alone ---------------------- *)

\* The files extract_text_from_pdf is called on.
ExtractPdfs ==
    { PdfFile(TRUE, ".pdf", Pages(layout, n), opens, ocrWorks) :
        layout \in Layouts, n \in 0..MaxPdfPages, opens \in BOOLEAN,
        ocrWorks \in BOOLEAN }
    \cup { PdfFile(FALSE, ".pdf", <<>>, FALSE, FALSE),
           PdfFile(TRUE, ".Pdf", Pages("digital", 1), TRUE, TRUE),
           PdfFile(TRUE, ".PDF", Pages("digital", 1), TRUE, TRUE) }

MaxPagesArgs == {None} \cup { Some(n) : n \in 0..MaxPagesArg }

Thresholds == (0..MaxThreshold) \cup {MinTextThreshold}

\* A file and the arguments of a call not yet made.
ExtractInit ==
    /\ pdf \in ExtractPdfs
    /\ extractArgs \in [max_pages : MaxPagesArgs,
                        min_text_threshold : Thresholds]
    /\ extracted = None
    /\ AllIdleBut("extract")

ExtractNext == ExtractText

ExtractSpec == ExtractInit /\ [][ExtractNext]_vars

(* --------------------------- segmentation alone ----------------------- *)

\* The text of a page: a balance sheet.
BalanceSheetPage ==
    <<"B", "a", "l", "a", "n", "c", "e", " ", "s", "h", "e", "e", "t">>

\* The text of a page: an auditor's report, which two patterns of one section match.
AuditorPage ==
    <<"i", "n", "d", "e", "p", "e", "n", "d", "e", "n", "t", " ", "A", "u",
    "d", "i", "t", "o", "r", "'", "s", " ", "r", "e", "p", "o", "r", "t">>

\* The text of a page: a board's report and a balance sheet, with runs of blanks.
BoardPage ==
    <<"B", "o", "a", "r", "d", "'", "s", " ", " ", "r", "e", "p", "o", "r",
    "t", "\n", "B", "a", "l", "a", "n", "c", "e", "\n", "s", "h", "e", "e",
    "t">>

\* The text of a page: an auditors report, without the apostrophe.
AuditorsPage ==
    <<"A", "u", "d", "i", "t", "o", "r", "s", " ", "r", "e", "p", "o", "r",
    "t">>

\* The text of a page: nothing a pattern matches.
PlainPage ==
    <<"a", " ", "b", "a", "l", "a", "n", "c", "e">>

PageTextPool ==
    {<<>>, BalanceSheetPage, AuditorPage, BoardPage, AuditorsPage, PlainPage}

\* page_texts as DocumentProcessor builds it from the texts of the pages.
PageTextsOf(texts) ==
    [i \in 1..Len(texts) |-> PageData(i, texts[i], texts[i] = <<>>)]

\* The pages of a document, and no structure built yet.
SegmentInit ==
    /\ \E texts \in SeqsUpTo(PageTextPool, MaxPages) :
          pageTexts = PageTextsOf(texts)
    /\ structure = None
    /\ AllIdleBut("segment")

SegmentNext == BuildStructure

SegmentSpec == SegmentInit /\ [][SegmentNext]_vars

(* ----------------------- the analysis run: main.py -------------------- *)

\* pdf_path.lower(), on the ends of the file names of the model
LowerExt(ext) ==
    CASE ext = ".PDF" -> ".pdf"
      [] ext = ".Pdf" -> ".pdf"
      [] OTHER -> ext

\* validate_pdf_input: the file is there and its name ends in .pdf, in any
\* case of the letters.
ValidatePdfInput(file) == file.exists /\ LowerExt(file.ext) = ".pdf"

\* The head of main: the rules file must exist and the PDF must be valid.
MainStart ==
    /\ pc = "start"
    /\ IF fileState.kind = "absent"
       THEN /\ console' = Append(console, "rules_file_not_found")
            /\ pc' = "done"
       ELSE IF ~ValidatePdfInput(pdf)
       THEN /\ console' = Append(console, "invalid_pdf")
            /\ pc' = "done"
       ELSE /\ console' = Append(console, "processing")
            /\ pc' = "step1"
    /\ UNCHANGED <<stats, tables, files>>
    /\ UNCHANGED <<coreVars, ratingVars, extractVars, segmentVars>>

\* Step 1 after the extraction, had it not looked whether there is text.
AfterExtractionAnyText(x) ==
    IF x.err # "none" THEN [tag |-> "extraction_error", pc |-> "done"]
    ELSE [tag |-> "extraction_successful", pc |-> "step2"]

\* Step 1 after the extraction: the run ends when the extraction raised or
\* gave no text.
AfterExtraction(x) ==
    IF x.err # "none" THEN [tag |-> "extraction_error", pc |-> "done"]
    ELSE IF x.result[1].text = <<>> THEN [tag |-> "no_text", pc |-> "done"]
    ELSE [tag |-> "extraction_successful", pc |-> "step2"]

\* Step 1: text extraction and its statistics.
MainStep1 ==
    /\ pc = "step1"
    /\ LET x == ExtractTextFromPdf(pdf, extractArgs.max_pages,
                                   extractArgs.min_text_threshold)
           next == AfterExtraction(x)
       IN  /\ extracted' = Some(x)
           /\ stats' = IF next.pc = "step2"
                       THEN Some(GetStatistics(x.result[1]))
                       ELSE None
           /\ console' = Append(console, next.tag)
           /\ pc' = next.pc
    /\ UNCHANGED <<pdf, extractArgs, tables, files>>
    /\ UNCHANGED <<coreVars, ratingVars, segmentVars>>

\* Step 2: table extraction.  extract_all_tables keeps its errors to itself
\* and finds tables only in a file pdfplumber opens; save_tables_to_excel
\* may raise, and may then have left a file behind.
MainStep2 ==
    /\ pc = "step2"
    /\ \E n \in 0..MaxTables : \E saved, left \in BOOLEAN :
          /\ n > 0 => pdf.opens
          /\ n = 0 => saved
          /\ saved => ~left
          /\ tables' = IF saved
                       THEN [found |-> n, excel_path |-> n > 0]
                       ELSE NoTables
          /\ files' = [files EXCEPT !.excel = n > 0 /\ (saved \/ left)]
          /\ console' = console \o <<"tables_complete">>
                           \o (IF saved THEN <<>> ELSE <<"tables_failed">>)
    /\ pc' = "step3"
    /\ UNCHANGED stats
    /\ UNCHANGED <<coreVars, ratingVars, extractVars, segmentVars>>

\* The structure the run goes on with when segmentation failed.
BasicStructure(page_texts) ==
    [total_pages |-> Len(page_texts),
     sections |-> <<>>,
     metadata |-> [sections_found |-> 0]]

\* Step 3: segmentation of the pages extracted; the segmenter may be failed
\* by the runtime.
MainStep3 ==
    /\ pc = "step3"
    /\ \E fails \in BOOLEAN :
          LET page_texts == extracted[1].result[1].page_texts
          IN  /\ structure' =
                    Some(IF fails THEN BasicStructure(page_texts)
                         ELSE BuildDocumentStructure(page_texts))
              /\ console' = Append(console,
                                   IF fails THEN "segmentation_failed"
                                   ELSE "segmentation_complete")
    /\ pc' = "step4"
    /\ UNCHANGED <<pageTexts, stats, tables, files>>
    /\ UNCHANGED <<coreVars, ratingVars, extractVars>>

\* Step 4: the checker is constructed over the rules file ...
MainConstruct ==
    /\ pc = "step4"
    /\ Construct

\* ... and called with the text extracted.
MainCheck ==
    /\ pc = "step4"
    /\ CheckCompliance(extracted[1].result[1].text)

\* Step 4, its end: the run ends when the constructor or the call raised.
MainAfterCompliance ==
    /\ pc = "step4"
    /\ phase \in {"failed", "checked"}
    /\ IF raised # "none"
       THEN /\ console' = Append(console, "compliance_error")
            /\ pc' = "done"
       ELSE /\ console' = Append(console, "compliance_complete")
            /\ pc' = "step5"
    /\ UNCHANGED <<stats, tables, files>>
    /\ UNCHANGED <<coreVars, ratingVars, extractVars, segmentVars>>

\* What generate_html_report writes: the score card and the extraction
\* statistics.
HtmlReport(results, extraction_stats) ==
    [score |-> results.summary.compliance_score,
     rating |-> GetRatingLabel(results.summary.compliance_score),
     passed |-> results.summary.compliant,
     total |-> results.summary.total_checks,
     method |-> extraction_stats.method,
     pages |-> extraction_stats.total_pages]

\* report_data, which json.dump writes.
ReportData ==
    [extraction_stats |-> stats[1],
     document_structure |->
         [total_pages |-> structure[1].total_pages,
          sections_found |-> structure[1].metadata.sections_found],
     tables_found |-> tables.found,
     compliance_results |-> report[1]]

\* Step 5 after the reports, had the JSON report been optional.
AfterReportsJsonOptional(html_written, json_written) ==
    IF html_written
    THEN [tag |-> "json_saved", pc |-> "step6"]
    ELSE [tag |-> "report_error", pc |-> "done"]

\* Step 5 after the reports: the run ends when one was not written.
AfterReports(html_written, json_written) ==
    IF html_written /\ json_written
    THEN [tag |-> "json_saved", pc |-> "step6"]
    ELSE [tag |-> "report_error", pc |-> "done"]

\* Step 5: the HTML report, then the JSON report; writing either may raise.
MainStep5 ==
    /\ pc = "step5"
    /\ \E html_written, json_written \in BOOLEAN :
          /\ json_written => html_written
          /\ files' = [files EXCEPT
                         !.html = IF html_written
                                  THEN Some(HtmlReport(report[1], stats[1]))
                                  ELSE None,
                         !.json = IF json_written THEN Some(ReportData)
                                  ELSE None]
          /\ console' = Append(console,
                               AfterReports(html_written, json_written).tag)
          /\ pc' = AfterReports(html_written, json_written).pc
    /\ UNCHANGED <<stats, tables>>
    /\ UNCHANGED <<coreVars, ratingVars, extractVars, segmentVars>>

\* Step 6: the recommendations for the report, printed one by one.
MainStep6 ==
    /\ pc = "step6"
    /\ LET results == ResultsDict(ReportKeys, report[1])
       IN  /\ Answered("generate_recommendations", results,
                       Recommendations(results).lines,
                       Recommendations(results).err)
           /\ console' = Append(console,
                                IF Recommendations(results).err = "none"
                                THEN "recommendations"
                                ELSE "no_recommendations")
    /\ pc' = "summary"
    /\ UNCHANGED <<fileState, verbose, phase, rules, loadOutput, docText,
                   report, printed, now>>
    /\ UNCHANGED <<stats, tables, files>>
    /\ UNCHANGED <<searchVars, threadVars, ratingVars, extractVars,
                   segmentVars>>

\* The final summary.
MainSummary ==
    /\ pc = "summary"
    /\ console' = Append(console, "analysis_complete")
    /\ pc' = "done"
    /\ UNCHANGED <<stats, tables, files>>
    /\ UNCHANGED <<coreVars, ratingVars, extractVars, segmentVars>>

\* The rules files a run meets: none, one that is no JSON, a JSON array, or
\* one standard with up to MaxTotalChecks checks.
IsRunFile(file) ==
    \/ \E k \in {"absent", "badjson"} :
          file = [kind |-> k, value |-> RulesDict(<<>>)]
    \/ file = [kind |-> "json", value |-> RulesArray]
    \/ \E cs \in SeqsUpTo(ConcPool, MaxTotalChecks) :
          \E r \in RulesOver(<<cs>>) :
             file = [kind |-> "json", value |-> r]

\* A page with a balance sheet on it, digital.
ReportPage == Page(BalanceSheetPage, BalanceSheetPage)

\* A digital page long enough for the extraction to do without OCR.
LongPage ==
    Page(Fill("gappy", MinTextThreshold), Fill("gappy", MinTextThreshold))

\* The PDFs a run meets: up to MaxPages pages of mixed kinds or one page of a
\* report, which pdfplumber and OCR may or may not work on; one long page;
\* no file; a file whose name ends in .Pdf; a file that is no PDF.
RunPdfs ==
    { PdfFile(TRUE, ".pdf", pages, opens, ocrWorks) :
        pages \in { Pages("mixed", n) : n \in 0..MaxPages }
                     \cup { <<ReportPage>> },
        opens \in BOOLEAN, ocrWorks \in BOOLEAN }
    \cup { PdfFile(TRUE, ".pdf", <<LongPage>>, TRUE, TRUE),
           PdfFile(FALSE, ".pdf", <<>>, FALSE, FALSE),
           PdfFile(TRUE, ".Pdf", <<ReportPage>>, TRUE, TRUE),
           PdfFile(TRUE, ".txt", <<>>, FALSE, FALSE) }

\* A run about to begin, with a checker not yet constructed.
RunInit(vb, max_pages) ==
    /\ IsRunFile(fileState)
    /\ verbose = vb
    /\ phase = "new"
    /\ rules = RulesDict(<<>>)
    /\ loadOutput = <<>>
    /\ raised = "none"
    /\ docText = <<>>
    /\ report = None
    /\ printed = <<>>
    /\ now = 0
    /\ SearchIdle
    /\ recCall = None
    /\ ThreadsIdle
    /\ rated = NotRated
    /\ pdf \in RunPdfs
    /\ extractArgs = [max_pages |-> Some(max_pages),
                      min_text_threshold |-> MinTextThreshold]
    /\ extracted = None
    /\ pageTexts = <<>>
    /\ structure = None
    /\ pc = "start"
    /\ stats = None
    /\ tables = NoTables
    /\ files = NoFiles
    /\ console = <<>>

MainInit == RunInit(TRUE, MainMaxPages)

MainNext ==
    \/ MainStart
    \/ MainStep1
    \/ MainStep2
    \/ MainStep3
    \/ MainConstruct
    \/ MainCheck
    \/ MainAfterCompliance
    \/ MainStep5
    \/ MainStep6
    \/ MainSummary

MainSpec == MainInit /\ [][MainNext]_vars

(* ------------------------- the quick demo: demo.py -------------------- *)

\* The head of demo.main: the sample PDF and the rules file must exist.
DemoStart ==
    /\ pc = "start"
    /\ IF ~pdf.exists
       THEN /\ console' = Append(console, "sample_pdf_not_found")
            /\ pc' = "done"
       ELSE IF fileState.kind = "absent"
       THEN /\ console' = Append(console, "rules_file_not_found")
            /\ pc' = "done"
       ELSE /\ console' = Append(console, "processing")
            /\ pc' = "step1"
    /\ UNCHANGED <<stats, tables, files>>
    /\ UNCHANGED <<coreVars, ratingVars, extractVars, segmentVars>>

\* The keys of the statistics the demo prints.
DemoStatsKeys == {"total_words", "total_pages", "extraction_method"}

\* Step 1 after the extraction: the statistics are taken and printed; a key
\* they lack raises KeyError, which ends the run like an exception of the
\* extraction.
AfterDemoExtraction(x) ==
    IF x.err # "none" THEN [tag |-> "error", pc |-> "done"]
    ELSE IF \E key \in DemoStatsKeys :
               key \notin DOMAIN GetStatistics(x.result[1])
    THEN [tag |-> "error", pc |-> "done"]
    ELSE [tag |-> "extracted", pc |-> "step2"]

\* Step 1: text extraction, the statistics and their printing, in one try
\* block.
DemoStep1 ==
    /\ pc = "step1"
    /\ LET x == ExtractTextFromPdf(pdf, extractArgs.max_pages,
                                   extractArgs.min_text_threshold)
       IN  /\ extracted' = Some(x)
           /\ stats' = IF x.err = "none"
                       THEN Some(GetStatistics(x.result[1]))
                       ELSE None
           /\ console' = Append(console, AfterDemoExtraction(x).tag)
           /\ pc' = AfterDemoExtraction(x).pc
    /\ UNCHANGED <<pdf, extractArgs, tables, files>>
    /\ UNCHANGED <<coreVars, ratingVars, segmentVars>>

\* Step 2: the checker is constructed over the rules file ...
DemoConstruct ==
    /\ pc = "step2"
    /\ Construct

\* ... and called with the text extracted.
DemoCheck ==
    /\ pc = "step2"
    /\ CheckCompliance(extracted[1].result[1].text)

\* Step 2, its end: the score is printed unless the constructor or the call
\* raised; then the closing lines.
DemoAfterCompliance ==
    /\ pc = "step2"
    /\ phase \in {"failed", "checked"}
    /\ console' = IF raised # "none"
                  THEN Append(console, "error")
                  ELSE console \o <<"compliance_score", "demo_complete">>
    /\ pc' = "done"
    /\ UNCHANGED <<stats, tables, files>>
    /\ UNCHANGED <<coreVars, ratingVars, extractVars, segmentVars>>

\* The sample PDF is at a path that ends in .pdf.
DemoInit ==
    /\ RunInit(FALSE, DemoMaxPages)
    /\ pdf.ext = ".pdf"

\* Step 2 is left out of the steps: step 1 never hands over to it.
DemoNext ==
    \/ DemoStart
    \/ DemoStep1

DemoSpec == DemoInit /\ [][DemoNext]_vars

(* ------------------------------- claims ------------------------------- *)

\* The letter a character is a case form of.
Fold(c) ==
    CASE c \in {"a", "A"} -> "a"
      [] c \in {"b", "B"} -> "b"
      [] c \in {"SIGMA", "sigma", "final_sigma"} -> "sigma"
      [] OTHER -> c

\* The offsets at which k occurs in t when case is ignored.
OccurrencesIgnoringCase(t, k) ==
    {i \in 0..(Len(t) - Len(k)) : \A j \in 1..Len(k) : Fold(t[i + j]) = Fold(k[j])}

\* The list positions of the keywords that occur in t when case is ignored.
OccurringKeywords(t, keywords) ==
    {p \in 1..Len(keywords) : OccurrencesIgnoringCase(t, keywords[p]) # {}}

Least(S) == CHOOSE x \in S : \A y \in S : x <= y

\* C6: the search reports a match if and only if some keyword of the list
\* occurs in the document text as a case-insensitive substring, and when it
\* reports none it returns (False, None).
C6_MatchIffOccursIgnoringCase ==
    sResult # None =>
        /\ sResult[1].found <=> (OccurringKeywords(sText, sKeywords) # {})
        /\ ~sResult[1].found => sResult[1].evidence = None

\* C7: when several keywords occur in the text, the evidence is anchored at
\* the first occurrence of the one that comes first in the keyword list.
C7_FirstListedKeywordAnchors ==
    (sResult # None /\ Cardinality(OccurringKeywords(sText, sKeywords)) >= 2) =>
        LET first == Least(OccurringKeywords(sText, sKeywords))
        IN  /\ sResult[1].found
            /\ sResult[1].pos = first
            /\ sResult[1].index =
                   Least(OccurrencesIgnoringCase(sText, sKeywords[first]))

\* C8: on an empty document text the search finds no match, whatever the
\* keyword list.
C8_EmptyTextNoMatch ==
    (sResult # None /\ sText = <<>>) => ~sResult[1].found

\* The window the specification describes around the first occurrence of k
\* in the document text t: cut, trimmed, its whitespace runs collapsed.
WindowOf(t, k) ==
    LET i == Least(OccurrencesIgnoringCase(t, k))
    IN  JoinSplit(Strip(Slice(t, Max(0, i - 100),
                              Min(Len(t), i + Len(k) + 100))))

\* C19: when a keyword k is found the evidence is the window of the document
\* text from max(0, i - 100) to min(len(text), i + len(k) + 100) around the
\* first occurrence i of k, whitespace runs collapsed and the ends trimmed,
\* and it is no longer than len(k) + 200.
C19_EvidenceIsWindowOfDocument ==
    (sResult # None /\ sResult[1].found) =>
        LET k == sKeywords[sResult[1].pos]
        IN  /\ sResult[1].evidence = Some(WindowOf(sText, k))
            /\ Len(sResult[1].evidence[1]) <= Len(k) + 200

(* The claims about check_compliance are about the report a call returned. *)

Returned == phase = "checked" /\ report # None

\* The checks of the rule set and the check results of the report, each in
\* standard-then-check order.
RECURSIVE FlatChecks(_, _)
FlatChecks(items, i) ==
    IF i > Len(items) THEN <<>>
    ELSE items[i].info.checks \o FlatChecks(items, i + 1)

RECURSIVE FlatResults(_, _)
FlatResults(standards, i) ==
    IF i > Len(standards) THEN <<>>
    ELSE standards[i].checks \o FlatResults(standards, i + 1)

RuleChecks == FlatChecks(rules.items, 1)

Results == FlatResults(report[1].detailed_results, 1)

Statuses == {"COMPLIANT", "NON-COMPLIANT", "MISSING"}

CountStatus(s) == Cardinality({i \in 1..Len(Results) : Results[i].status = s})

RECURSIVE SumWeights(_, _)
SumWeights(ws, i) == IF i > Len(ws) THEN 0 ELSE ws[i] + SumWeights(ws, i + 1)

\* The weight of each check as the rules file gives it, 5 when it gives none.
RuleWeights ==
    [i \in 1..Len(RuleChecks) |->
        IF "weight" \in RuleChecks[i].keys THEN RuleChecks[i].weight ELSE 5]

\* The weight of each check result, counted only when it is COMPLIANT.
CompliantWeights ==
    [i \in 1..Len(Results) |->
        IF Results[i].status = "COMPLIANT" THEN RuleWeights[i] ELSE 0]

\* The data model's invariant on weights: none is negative.
NonNegativeWeights == \A i \in 1..Len(RuleChecks) : RuleWeights[i] >= 0

\* C1: every check's status is COMPLIANT when the search finds a match,
\* NON-COMPLIANT when it finds none and the check is mandatory (no
\* `mandatory` key counts as mandatory), MISSING when it finds none and
\* mandatory is false; there is no other status.
C1_StatusFromMatchAndMandatory ==
    Returned =>
        /\ Len(Results) = Len(RuleChecks)
        /\ \A i \in 1..Len(Results) :
              LET check == RuleChecks[i]
                  match == SearchKeywords(Lower(docText), check.keywords.items).found
                  optional == "mandatory" \in check.keys /\ ~check.mandatory
              IN  /\ Results[i].status \in Statuses
                  /\ match => Results[i].status = "COMPLIANT"
                  /\ (~match /\ ~optional) => Results[i].status = "NON-COMPLIANT"
                  /\ (~match /\ optional) => Results[i].status = "MISSING"

\* A report with a MISSING result and with a NON-COMPLIANT result of a check
\* that has no `mandatory` key.
C1_Witness ==
    /\ Returned
    /\ \E i \in 1..Len(Results) : Results[i].status = "MISSING"
    /\ \E i \in 1..Len(Results) :
          /\ Results[i].status = "NON-COMPLIANT"
          /\ "mandatory" \notin RuleChecks[i].keys

C4_StatusCounts ==
    Returned =>
        /\ report[1].summary.compliant = CountStatus("COMPLIANT")
        /\ report[1].summary.non_compliant = CountStatus("NON-COMPLIANT")
        /\ report[1].summary.missing = CountStatus("MISSING")
        /\ report[1].summary.compliant + report[1].summary.non_compliant
               + report[1].summary.missing = report[1].summary.total_checks
        /\ report[1].summary.total_checks = Len(RuleChecks)

\* A report over two standards with a NON-COMPLIANT and a MISSING result.
C4_Witness ==
    /\ Returned
    /\ Len(report[1].detailed_results) = 2
    /\ report[1].summary.non_compliant = 1
    /\ report[1].summary.missing = 1

\* The scenario of the specification: one standard with a mandatory check of
\* weight 10 whose keyword the text holds (in another case) and an optional
\* check of weight 5 whose keyword it does not hold.
Scenario ==
    /\ Returned
    /\ Len(rules.items) = 1
    /\ Len(RuleChecks) = 2
    /\ RuleChecks[1].keys = AllCheckKeys /\ RuleChecks[2].keys = AllCheckKeys
    /\ RuleChecks[1].mandatory /\ RuleChecks[1].weight = 10
    /\ RuleChecks[1].keywords = KwList(<< <<"a">> >>)
    /\ ~RuleChecks[2].mandatory /\ RuleChecks[2].weight = 5
    /\ RuleChecks[2].keywords = KwList(<< <<"b">> >>)
    /\ docText = <<"A">>

\* C5: compliance_score is achieved_weight / total_weight * 100 rounded to
\* two decimal places (within half a hundredth of the quotient) when
\* total_weight > 0 and exactly 0 otherwise; the scenario gives compliant 1,
\* missing 1, non_compliant 0, total_weight 15, achieved_weight 10 and
\* compliance_score 66.67.
C5_ScoreFormula ==
    Returned =>
        LET s == report[1].summary
            off == s.compliance_score * s.total_weight - s.achieved_weight * 10000
        IN  /\ s.total_weight > 0 => (2 * off <= s.total_weight
                                      /\ -2 * off <= s.total_weight)
            /\ s.total_weight <= 0 => s.compliance_score = 0
            /\ Scenario => s = [total_checks |-> 2, compliant |-> 1,
                                non_compliant |-> 0, missing |-> 1,
                                total_weight |-> 15, achieved_weight |-> 10,
                                compliance_score |-> 6667]

\* The scenario, evaluated.
C5_Witness == Scenario /\ report[1].summary.compliance_score = 6667

\* The rules file breaks the data model in one of the ways C9 names.
Malformed(r) ==
    \E s \in 1..Len(r.items) :
        \/ "checks" \notin r.items[s].info.keys
        \/ \E c \in 1..Len(r.items[s].info.checks) :
              LET check == r.items[s].info.checks[c]
              IN  \/ "id" \notin check.keys
                  \/ check.keywords.type # "list"
                  \/ check.keywords.items = <<>>

\* C9: a rules file with a standard without `checks`, a check without an id,
\* a keywords value that is no list or an empty keyword list is rejected
\* when the checker is constructed.
C9_MalformedRejectedAtLoad ==
    (phase # "new" /\ fileState.kind = "json" /\ Malformed(fileState.value)) =>
        phase = "failed"

\* C10: when the rules file is absent or no valid JSON the rule set is the
\* built-in one (standard IndAS-1, one mandatory check of weight 10 on the
\* keyword "balance sheet") and the output reports it, verbose or not; any
\* other failure to load reaches the caller.
C10_FallbackReported ==
    /\ (phase # "new" /\ fileState.kind \in {"absent", "badjson"}) =>
          /\ phase # "failed"
          /\ rules.type = "dict"
          /\ Len(rules.items) = 1
          /\ rules.items[1].id = "IndAS-1"
          /\ Len(rules.items[1].info.checks) = 1
          /\ rules.items[1].info.checks[1].mandatory
          /\ rules.items[1].info.checks[1].weight = 10
          /\ rules.items[1].info.checks[1].keywords =
                 [type |-> "list",
                  items |-> << <<"b", "a", "l", "a", "n", "c", "e", " ",
                                 "s", "h", "e", "e", "t">> >>]
          /\ \E i \in 1..Len(loadOutput) :
                loadOutput[i].tag \in {"rules_file_not_found", "invalid_json"}
    /\ (phase # "new" /\ fileState.kind = "unreadable") =>
          (phase = "failed" /\ raised = "PermissionError")

\* A quiet checker constructed over a rules file that is no valid JSON.
C10_Witness ==
    /\ phase = "ready"
    /\ fileState.kind = "badjson"
    /\ ~verbose
    /\ loadOutput # <<>>

(* Claims about the evaluator's failure semantics and the report's shape. *)

\* The rule set has the shape of the data model: a mapping of standards each
\* with a name and a list of checks, every check with an id, a requirement,
\* a non-empty list of keywords and no negative weight.  (The ids need not
\* be unique for the evaluator to work.)
ConformsToDataModel(r) ==
    /\ r.type = "dict"
    /\ \A s \in 1..Len(r.items) :
          /\ {"name", "checks"} \subseteq r.items[s].info.keys
          /\ \A c \in 1..Len(r.items[s].info.checks) :
                LET check == r.items[s].info.checks[c]
                IN  /\ {"id", "requirement", "keywords"} \subseteq check.keys
                    /\ check.keywords.type = "list"
                    /\ check.keywords.items # <<>>
                    /\ "weight" \in check.keys => check.weight >= 0

\* C11: over a rule set that conforms to the data model check_compliance
\* raises nothing and returns a report, whatever the document text; a check
\* without evidence has status NON-COMPLIANT or MISSING.
C11_NeverRaisesOnConformingRules ==
    (phase = "checked" /\ ConformsToDataModel(rules)) =>
        /\ raised = "none"
        /\ report # None
        /\ Len(Results) = Len(RuleChecks)
        /\ \A i \in 1..Len(Results) :
              Results[i].evidence = None =>
                  Results[i].status \in {"NON-COMPLIANT", "MISSING"}

\* A conforming rule set evaluated on the empty text: nothing is found, one
\* check is NON-COMPLIANT and one MISSING.
C11_Witness ==
    /\ phase = "checked"
    /\ ConformsToDataModel(rules)
    /\ docText = <<>>
    /\ report # None
    /\ \E i \in 1..Len(Results) : Results[i].status = "NON-COMPLIANT"
    /\ \E i \in 1..Len(Results) : Results[i].status = "MISSING"

\* C20: detailed_results has one entry per standard, in the rule set's
\* insertion order, and each entry's checks has one result per check of the
\* standard, in list order, with the check's id, requirement and keywords.
C20_DetailedResultsFollowRuleSet ==
    Returned =>
        /\ Len(report[1].detailed_results) = Len(rules.items)
        /\ \A s \in 1..Len(rules.items) :
              LET entry == report[1].detailed_results[s]
                  checks == rules.items[s].info.checks
              IN  /\ entry.standard_id = rules.items[s].id
                  /\ entry.standard_name = rules.items[s].info.name
                  /\ Len(entry.checks) = Len(checks)
                  /\ \A c \in 1..Len(checks) :
                        /\ entry.checks[c].check_id = checks[c].id
                        /\ entry.checks[c].requirement = checks[c].requirement
                        /\ entry.checks[c].keywords_searched = checks[c].keywords

\* A report over two standards, each with a check, the checks different.
C20_Witness ==
    /\ Returned
    /\ Len(report[1].detailed_results) = 2
    /\ Len(report[1].detailed_results[1].checks) = 1
    /\ Len(report[1].detailed_results[2].checks) = 1
    /\ report[1].detailed_results[1].checks[1].check_id
           # report[1].detailed_results[2].checks[1].check_id

(* The claims about the recommendations are about the list a call of       *)
(* generate_recommendations returned for the report it was given.          *)

Recommended ==
    /\ recCall # None
    /\ recCall[1].fn = "generate_recommendations"
    /\ recCall[1].value # None

\* The check results of the report in standard-then-check order, each with
\* the name and the priority of its standard.
RECURSIVE Entries(_, _)
Entries(standards, i) ==
    IF i > Len(standards) THEN <<>>
    ELSE [c \in 1..Len(standards[i].checks) |->
             [name |-> standards[i].standard_name,
              priority |-> standards[i].priority,
              requirement |-> standards[i].checks[c].requirement,
              status |-> standards[i].checks[c].status]]
         \o Entries(standards, i + 1)

IsOpen(entry) == entry.status # "COMPLIANT"

\* The gaps of the report the recommendations were generated for.
Gaps == SelectSeq(Entries(recCall[1].results.report.detailed_results, 1), IsOpen)

IsHighEntry(entry) == entry.priority = "HIGH"

HighGaps == SelectSeq(Gaps, IsHighEntry)

IsItemLine(line) == line.tag = "add"

IsUrgentLine(line) == line.tag = "urgent"

IsClosingLine(line) == line.tag \in {"comprehensive_review", "focus_high_priority"}

RecLines == recCall[1].value[1]

\* C15: the itemized lines are one per gap for the first min(5, n) of the n
\* gaps (the NON-COMPLIANT and MISSING results in standard-then-check order
\* of the report), each naming the gap's requirement and standard; 7 gaps
\* give 5 lines.
C15_ItemizedLinesFirstFiveGaps ==
    Recommended =>
        LET itemized == SelectSeq(RecLines, IsItemLine)
        IN  /\ Len(itemized) = Min(5, Len(Gaps))
            /\ \A i \in 1..Len(itemized) :
                  /\ i <= Len(Gaps)
                  /\ itemized[i].s1 = Gaps[i].requirement
                  /\ itemized[i].s2 = Gaps[i].name
            /\ Len(Gaps) = 7 => Len(itemized) = 5

\* Seven gaps over two standards, five lines.
C15_Witness ==
    /\ Recommended
    /\ Len(Gaps) = 7
    /\ Len(SelectSeq(RecLines, IsItemLine)) = 5
    /\ \E i, j \in 1..5 : Gaps[i].name # Gaps[j].name

\* C16: the list starts with an urgent line exactly when some gap belongs to
\* a standard of priority HIGH; there is one such line at most and it gives
\* the number of all those gaps, listed or not; over an empty rule set
\* there is none.
C16_UrgentLineCountsHighGaps ==
    Recommended =>
        LET urgent == SelectSeq(RecLines, IsUrgentLine)
        IN  /\ HighGaps # <<>> =>
                  /\ Len(urgent) = 1
                  /\ RecLines[1].tag = "urgent"
                  /\ RecLines[1].n = Len(HighGaps)
            /\ HighGaps = <<>> => urgent = <<>>
            /\ rules.items = <<>> => urgent = <<>>

\* Seven gaps, the last two of a HIGH-priority standard: the urgent line
\* says 2 and five itemized lines follow.
C16_Witness ==
    /\ Recommended
    /\ Len(Gaps) = 7
    /\ Len(HighGaps) = 2
    /\ ~IsHighEntry(Gaps[5])
    /\ RecLines[1] = Line("urgent", "", "", <<>>, 2, 0)
    /\ Len(RecLines) >= 6
    /\ \A i \in 2..6 : RecLines[i].tag = "add"

\* C17: a score below 60 ends the list with the comprehensive-review line, a
\* score from 60 up to but not 80 with the focus line, a score of 80 or more
\* with no closing line; there is never more than one closing line.
C17_ClosingLineKeyedToScore ==
    Recommended =>
        LET score == recCall[1].results.report.summary.compliance_score
            closing == SelectSeq(RecLines, IsClosingLine)
        IN  /\ Len(closing) <= 1
            /\ score < 6000 =>
                  /\ RecLines # <<>>
                  /\ RecLines[Len(RecLines)].tag = "comprehensive_review"
            /\ (6000 <= score /\ score < 8000) =>
                  /\ RecLines # <<>>
                  /\ RecLines[Len(RecLines)].tag = "focus_high_priority"
            /\ score >= 8000 => closing = <<>>

\* A score of exactly 60, and the focus line last.
C17_Witness ==
    /\ Recommended
    /\ recCall[1].results.report.summary.compliance_score = 6000
    /\ RecLines[Len(RecLines)].tag = "focus_high_priority"

\* C18: when generating the recommendations fails, the outcome is an empty
\* recommendation list and no exception: generate_recommendations on a dict
\* that makes it fail returns no recommendations.
C18_FailureGivesEmptyList ==
    (/\ recCall # None
     /\ recCall[1].fn = "generate_recommendations"
     /\ ~(ReportKeys \subseteq recCall[1].results.keys)) =>
        /\ recCall[1].err = "none"
        /\ recCall[1].value = Some(<<>>)
        /\ raised = "none"

(* Claims about a checker that is called more than once. *)

\* The rule set the constructor loaded from the rules file.
LoadedRules == IF fileState.kind = "json" THEN fileState.value ELSE DefaultRules

\* C12: after construction, whatever calls of check_compliance,
\* get_non_compliant_items and generate_recommendations have been made,
\* self.rules is the rule set that was loaded.
C12_RulesImmutable ==
    phase \in {"ready", "checked"} => rules = LoadedRules

\* Two or more check_compliance calls and a call of the recommendation
\* generator have been made, over a rule set whose checks leave the defaults
\* to the checker.
C12_Witness ==
    /\ phase = "checked"
    /\ now = 2
    /\ recCall # None
    /\ \E i \in 1..Len(RuleChecks) : "weight" \notin RuleChecks[i].keys
    /\ rules = LoadedRules

\* C13: a check_compliance call with the document text of the call before it,
\* on the same checker, returns a report equal to that call's in every field.
C13_SameTextSameReport ==
    [][(/\ phase = "checked" /\ report # None
        /\ phase' = "checked" /\ report' # None
        /\ docText' = docText)
       => report' = report]_vars

(* Claims about concurrent calls. *)

\* C14: when two check_compliance calls run at a time on one checker, their
\* steps interleaved in any way, each returns the summary and the detailed
\* results it returns when run alone, and raises when it raises alone.
C14_ConcurrentCallsIndependent ==
    \A th \in Threads :
        LET alone == Evaluate(rules, calls[th].document_text, verbose, 0)
        IN  /\ calls[th].pc = "returned" =>
                  /\ alone.report # None
                  /\ calls[th].out[1].report # None
                  /\ calls[th].out[1].report[1].summary = alone.report[1].summary
                  /\ calls[th].out[1].report[1].detailed_results
                         = alone.report[1].detailed_results
            /\ calls[th].pc = "raised" =>
                  /\ alone.report = None
                  /\ calls[th].out[1].err = alone.err

\* Both calls have returned, on different documents, with different
\* summaries, over two standards.
C14_Witness ==
    /\ calls[1].pc = "returned"
    /\ calls[2].pc = "returned"
    /\ calls[1].document_text # calls[2].document_text
    /\ calls[1].out[1].report[1].summary # calls[2].out[1].report[1].summary
    /\ Len(calls[1].out[1].report[1].detailed_results) = 2
    /\ calls[1].out[1].report[1].summary.total_checks = 2

(* Claims about the per-standard counts, the defaults and the evidence. *)

RECURSIVE SumField(_, _, _)
SumField(standards, field, i) ==
    IF i > Len(standards) THEN 0
    ELSE standards[i][field] + SumField(standards, field, i + 1)

\* C21: in every standard result total_count is the number of its check
\* results and compliant_count the number of them that are COMPLIANT; over
\* all standards they add up to summary.total_checks and summary.compliant.
C21_PerStandardCounts ==
    Returned =>
        LET standards == report[1].detailed_results
        IN  /\ \A s \in 1..Len(standards) :
                  /\ standards[s].total_count = Len(standards[s].checks)
                  /\ standards[s].compliant_count =
                         Cardinality({c \in 1..Len(standards[s].checks) :
                                         standards[s].checks[c].status = "COMPLIANT"})
            /\ SumField(standards, "total_count", 1) = report[1].summary.total_checks
            /\ SumField(standards, "compliant_count", 1) = report[1].summary.compliant

\* Two standards with a check each, one COMPLIANT and one not.
C21_Witness ==
    /\ Returned
    /\ Len(report[1].detailed_results) = 2
    /\ report[1].detailed_results[1].total_count = 1
    /\ report[1].detailed_results[2].total_count = 1
    /\ report[1].detailed_results[1].compliant_count
           + report[1].detailed_results[2].compliant_count = 1

\* C25: in every report a check result's evidence is None exactly when its
\* status is not COMPLIANT; every COMPLIANT result carries a snippet.
C25_EvidenceIffCompliant ==
    Returned =>
        \A i \in 1..Len(Results) :
            (Results[i].evidence = None) <=> (Results[i].status # "COMPLIANT")

\* A report with a COMPLIANT result, with its snippet, and one that is not.
C25_Witness ==
    /\ Returned
    /\ \E i \in 1..Len(Results) :
          /\ Results[i].status = "COMPLIANT"
          /\ Results[i].evidence # None
          /\ Results[i].evidence[1] # <<>>
    /\ \E i \in 1..Len(Results) :
          /\ Results[i].status # "COMPLIANT"
          /\ Results[i].evidence = None

\* C22: a check without `weight` is scored with weight 5, a check without
\* `mandatory` is treated as mandatory, a standard without `category` is
\* reported as "general" and one without `priority` as "MEDIUM", so that its
\* gaps do not count as high-priority.
C22_DefaultsWhenAbsent ==
    /\ Returned =>
          /\ Len(Results) = Len(RuleChecks)
          /\ \A i \in 1..Len(Results) :
                /\ "weight" \notin RuleChecks[i].keys => Results[i].weight = 5
                /\ "mandatory" \notin RuleChecks[i].keys =>
                      /\ Results[i].mandatory
                      /\ Results[i].status # "MISSING"
          /\ (\A i \in 1..Len(RuleChecks) : "weight" \notin RuleChecks[i].keys) =>
                report[1].summary.total_weight = 5 * Len(RuleChecks)
          /\ \A s \in 1..Len(rules.items) :
                /\ "category" \notin rules.items[s].info.keys =>
                      report[1].detailed_results[s].category = "general"
                /\ "priority" \notin rules.items[s].info.keys =>
                      report[1].detailed_results[s].priority = "MEDIUM"
    /\ (/\ Returned
        /\ Recommended
        /\ recCall[1].results.report = report[1]
        /\ \A s \in 1..Len(rules.items) :
              "priority" \notin rules.items[s].info.keys) =>
          SelectSeq(RecLines, IsUrgentLine) = <<>>

\* A check with neither key, found NON-COMPLIANT at weight 5 in a standard
\* with neither key, and recommendations generated for the report.
C22_Witness ==
    /\ Returned
    /\ Recommended
    /\ recCall[1].results.report = report[1]
    /\ Len(RuleChecks) = 1
    /\ RuleChecks[1].keys = {"id", "requirement", "keywords"}
    /\ Results[1].status = "NON-COMPLIANT"
    /\ report[1].summary.total_weight = 5
    /\ rules.items[1].info.keys = {"name", "checks"}
    /\ RecLines # <<>>

\* The band of a score: EXCELLENT from 90, GOOD from 75, FAIR from 60, POOR
\* below.
Band(score) ==
    IF score >= 9000 THEN "EXCELLENT"
    ELSE IF score >= 7500 THEN "GOOD"
    ELSE IF score >= 6000 THEN "FAIR"
    ELSE "POOR"

\* C23: the printed summary and the rendered rating label both give a score
\* its band: EXCELLENT from 90.00, GOOD from 75.00, FAIR from 60.00 and POOR
\* below.
C23_SameBandsEverywhere ==
    /\ rated.summary # None => rated.summary[1] = Band(rated.score)
    /\ rated.label # None => rated.label[1] = Band(rated.score)

RECURSIVE DigitalChars(_, _)
DigitalChars(file, n) ==
    IF n = 0 THEN 0
    ELSE DigitalChars(file, n - 1)
         + (IF file.pages[n].digital # <<>>
            THEN Len(file.pages[n].digital) + 2
            ELSE 0)

\* The characters digital extraction yields under max_pages.
DigitalYield(file, max_pages) ==
    IF ~file.opens THEN 0
    ELSE DigitalChars(file, IF max_pages = None \/ max_pages[1] = 0
                            THEN Len(file.pages)
                            ELSE Min(max_pages[1], Len(file.pages)))

\* The pages OCR is limited to: max_pages, or 10 when max_pages is None.
OcrLimit(max_pages) ==
    IF max_pages = None THEN OcrDefaultPages ELSE max_pages[1]

ExtractionReturned ==
    /\ extracted # None
    /\ extracted[1].err = "none"

\* C29: extract_text_from_pdf returns the OCR result exactly when digital
\* extraction yielded fewer than min_text_threshold characters, the digital
\* result otherwise; the OCR result covers no more than max_pages pages, or
\* no more than 10 when max_pages is None.
C29_OcrExactlyBelowThreshold ==
    ExtractionReturned =>
        LET result == extracted[1].result[1]
            short == DigitalYield(pdf, extractArgs.max_pages)
                        < extractArgs.min_text_threshold
        IN  /\ result.metadata.method = (IF short THEN "ocr" ELSE "digital")
            /\ short => result = ExtractWithOcr(pdf, OcrLimit(extractArgs.max_pages))
            /\ short => Len(result.page_texts) <= OcrLimit(extractArgs.max_pages)
            /\ ~short => result = ExtractDigitalText(pdf, extractArgs.max_pages)

\* The numbers of the pages that a pattern of the section matches.
MatchingPages(name) ==
    {i \in 1..Len(pageTexts) :
        \E j \in 1..Len(SectionPatterns[name]) :
            ReSearch(SectionPatterns[name][j], Lower(pageTexts[i].text))}

\* The text lengths of the pages of the first n entries of a section's list.
RECURSIVE ListedChars(_, _)
ListedChars(pages, n) ==
    IF n = 0 THEN 0
    ELSE ListedChars(pages, n - 1) + Len(pageTexts[pages[n]].text)

SectionWellFormed(name, section) ==
    LET pages == section.pages
    IN  /\ section.found <=> pages # <<>>
        /\ \A i \in 1..Len(pages) : pages[i] \in MatchingPages(name)
        /\ \A i \in MatchingPages(name) :
              \E k \in 1..Len(pages) : pages[k] = i
        /\ \A i, k \in 1..Len(pages) : i < k => pages[i] < pages[k]
        /\ pages # <<>> =>
              /\ section.start_page = Some(pages[1])
              /\ section.end_page = Some(pages[Len(pages)])
        /\ section.total_chars = ListedChars(pages, Len(pages))

\* C30: in the structure the segmenter returns, a section is found exactly
\* when its page list is not empty; the list holds the matching pages, each
\* once and in document order; start_page and end_page are its first and
\* last element; total_chars is the sum of the text lengths of the listed
\* pages; sections_found counts the sections found.
C30_SectionsWellFormed ==
    structure # None =>
        /\ \A name \in Sections :
              SectionWellFormed(name, structure[1].sections[name])
        /\ structure[1].metadata.sections_found =
              Cardinality({name \in Sections :
                              structure[1].sections[name].found})

\* A document segmented into two sections, one of them on two pages, one of
\* which two of its patterns match.
C30_Witness ==
    /\ structure # None
    /\ structure[1].metadata.sections_found = 2
    /\ Len(structure[1].sections["auditor_report"].pages) = 2
    /\ \E i \in 1..Len(pageTexts) : pageTexts[i].text = AuditorPage
    /\ structure[1].sections["auditor_report"].total_chars > 0

\* The run has printed the line group.
Shown(tag) == \E i \in 1..Len(console) : console[i] = tag

\* The checker has been constructed or called: compliance validation ran.
ValidationRan == phase # "new"

NoReportWritten == files.html = None /\ files.json = None

\* C26: in main, compliance validation runs only after text extraction
\* returned text that is not empty; a run whose table extraction or
\* segmentation failed goes on, with no tables or with an empty section
\* structure, and ends only after compliance validation ran; a run whose
\* text extraction or compliance validation failed ends with no report
\* written.
C26_MainStepOrder ==
    /\ ValidationRan =>
          /\ extracted # None
          /\ extracted[1].err = "none"
          /\ extracted[1].result[1].text # <<>>
    /\ Shown("tables_failed") => tables = NoTables
    /\ Shown("segmentation_failed") =>
          /\ structure[1].sections = <<>>
          /\ structure[1].metadata.sections_found = 0
    /\ (Shown("tables_failed") \/ Shown("segmentation_failed")) /\ pc = "done"
          => ValidationRan
    /\ (\/ Shown("extraction_error")
        \/ Shown("no_text")
        \/ Shown("compliance_error"))
          => pc = "done" /\ NoReportWritten

\* A run whose table extraction and segmentation failed has gone on to
\* compliance validation and has written both reports.
C26_Witness ==
    /\ Shown("tables_failed")
    /\ Shown("segmentation_failed")
    /\ files.html # None
    /\ files.json # None
    /\ pc = "done"

\* C27: in main, the recommendations and the final summary are printed only
\* after both the HTML and the JSON report were written; a run whose report
\* generation raised ends without either.
C27_ReportsBeforeRecommendations ==
    /\ (Shown("recommendations") \/ Shown("no_recommendations")
        \/ Shown("analysis_complete") \/ pc \in {"step6", "summary"})
          => files.html # None /\ files.json # None
    /\ Shown("report_error") =>
          /\ pc = "done"
          /\ ~Shown("recommendations")
          /\ ~Shown("no_recommendations")
          /\ ~Shown("analysis_complete")

\* A run that printed recommendations and the final summary.
C27_Witness ==
    /\ Shown("recommendations")
    /\ Shown("analysis_complete")
    /\ pc = "done"
    /\ files.json # None

\* C28: a run of the demo that found the sample PDF and the rules file and
\* whose text extraction returned reaches step 2 and prints the compliance
\* score: it does not end without the score.
C28_DemoPrintsScore ==
    (/\ pc = "done"
     /\ extracted # None
     /\ extracted[1].err = "none")
        => Shown("compliance_score")

=============================================================================
